---- MODULE Spec2Model ----
(***************************************************************************)
(* Re-FAP bot: the slot / score / routing decision core of the chat        *)
(* service (bot index.js, POST /api/chat).                                 *)
(*                                                                         *)
(* Text is modelled as the JavaScript string split on single spaces: a     *)
(* string is a non-empty sequence of tokens, the empty string is <<"">>,   *)
(* and joining with one space is sequence concatenation.  A slot that is   *)
(* absent from the slot object is the empty sequence <<>>.                 *)
(***************************************************************************)
EXTENDS Integers, Sequences, FiniteSets, TLC

\* ------------------------------------------------------------------ bounds

\* number of indicator phrases in the symptoms text of an input slot map
MaxPhrases == 1
\* number of valid chat turns received in one run
MaxTurns == 2
\* number of chat handlers that can be suspended at the same time
MaxInFlight == 2
\* number of tokens in a text handed to softExtractSlots
MaxTokens == 2
\* number of rows the table bot.leads can take in one run
MaxLeads == 2
\* number of stream handlers that can be running at the same time
MaxStreams == 2
\* number of stream requests received in one run
MaxRequests == 2
\* number of non-empty chunks of one model stream
MaxChunks == 2
\* number of clock ticks in one run
MaxClock == 2

\* ------------------------------------------------------------------ state

VARIABLES
  openai,       \* TRUE when an OpenAI key is configured (the client is not null)
  sessions,     \* the sessions Map: session id -> {slots, mode, history}
  reqs,         \* the POST /api/chat handlers suspended at an await
  last,         \* the last response sent by POST /api/chat
  nturns,       \* number of valid turns received so far
  fnPc,         \* position of the function harness: input, scored, added, routed
  fnText,       \* the text handed to softExtractSlots, <<>> when none
  fnSlots,      \* the slot map handed to fapScore / decideRouting, or the
                \* one softExtractSlots returned for fnText
  fnScore,      \* the value fapScore returned for fnSlots
  fnPrevScore,  \* the value fapScore returned before a phrase was added
  fnAdded,      \* the phrase added to the scored text, <<>> when none
  fnRes,        \* the value decideRouting returned for fnSlots
  fnStage,      \* the stage computed for fnSlots
  fnNext,       \* the next question computed for fnSlots, "" for null
  leads,        \* the rows of the table bot.leads
  leadRes,      \* the last response sent by POST /api/lead
  cache,        \* the stream cache _cache: key -> {value, exp}
  now,          \* Date.now(), in ticks
  streams,      \* the /api/diagnose/stream handlers waiting on the model
  lastStream,   \* the handler that ended last, with the events it wrote
  nstreams      \* number of stream requests received so far

chatVars == <<openai, sessions, reqs, last, nturns>>
fnVars ==
  <<fnPc, fnText, fnSlots, fnScore, fnPrevScore, fnAdded, fnRes, fnStage,
    fnNext>>
leadVars == <<leads, leadRes>>
streamVars == <<cache, now, streams, lastStream, nstreams>>
vars == <<openai, sessions, reqs, last, nturns,
          fnPc, fnText, fnSlots, fnScore, fnPrevScore, fnAdded, fnRes, fnStage,
          fnNext, leads, leadRes, cache, now, streams, lastStream, nstreams>>

\* ------------------------------------------------------------ text helpers

Absent == <<>>
EmptyStr == <<"">>

\* the tokens that are read character by character: numbers and plates, well
\* formed or not
CodeWords ==
  { "75001", "69002", "12345", "7500", "750011", "75001,", "a75001", "A75001",
    "AA-123-AA", "aa-123-aa", "BB-456-BB", "bb-456-bb", "Ab-123-cD",
    "ab-123-cd", "AB-123-CD", "AAA-123-A", "aaa-123-a", "AA-12345-AA",
    "aa-12345-aa", "206", "1.6", "2010" }

\* the characters of a token (the other words of the vocabulary hold no digit)
Spell(w) ==
  CASE w = "75001" -> <<"7", "5", "0", "0", "1">>
    [] w = "69002" -> <<"6", "9", "0", "0", "2">>
    [] w = "12345" -> <<"1", "2", "3", "4", "5">>
    [] w = "7500" -> <<"7", "5", "0", "0">>
    [] w = "750011" -> <<"7", "5", "0", "0", "1", "1">>
    [] w = "75001," -> <<"7", "5", "0", "0", "1", ",">>
    [] w = "a75001" -> <<"a", "7", "5", "0", "0", "1">>
    [] w = "A75001" -> <<"A", "7", "5", "0", "0", "1">>
    [] w = "AA-123-AA" -> <<"A", "A", "-", "1", "2", "3", "-", "A", "A">>
    [] w = "aa-123-aa" -> <<"a", "a", "-", "1", "2", "3", "-", "a", "a">>
    [] w = "BB-456-BB" -> <<"B", "B", "-", "4", "5", "6", "-", "B", "B">>
    [] w = "bb-456-bb" -> <<"b", "b", "-", "4", "5", "6", "-", "b", "b">>
    [] w = "Ab-123-cD" -> <<"A", "b", "-", "1", "2", "3", "-", "c", "D">>
    [] w = "ab-123-cd" -> <<"a", "b", "-", "1", "2", "3", "-", "c", "d">>
    [] w = "AB-123-CD" -> <<"A", "B", "-", "1", "2", "3", "-", "C", "D">>
    [] w = "AAA-123-A" -> <<"A", "A", "A", "-", "1", "2", "3", "-", "A">>
    [] w = "aaa-123-a" -> <<"a", "a", "a", "-", "1", "2", "3", "-", "a">>
    [] w = "AA-12345-AA" ->
         <<"A", "A", "-", "1", "2", "3", "4", "5", "-", "A", "A">>
    [] w = "aa-12345-aa" ->
         <<"a", "a", "-", "1", "2", "3", "4", "5", "-", "a", "a">>
    [] w = "206" -> <<"2", "0", "6">>
    [] w = "1.6" -> <<"1", ".", "6">>
    [] w = "2010" -> <<"2", "0", "1", "0">>
    [] OTHER -> <<>>

\* the token with the characters cs
Word(cs) == CHOOSE w \in CodeWords : Spell(w) = cs

\* toLowerCase / toUpperCase on one character
LowerChar(c) ==
  CASE c = "A" -> "a" [] c = "B" -> "b" [] c = "C" -> "c" [] c = "D" -> "d"
    [] OTHER -> c
UpperChar(c) ==
  CASE c = "a" -> "A" [] c = "b" -> "B" [] c = "c" -> "C" [] c = "d" -> "D"
    [] OTHER -> c

\* \d, [a-z] and \w on the characters of the code words
Digit(c) == c \in {"0", "1", "2", "3", "4", "5", "6", "7", "8", "9"}
Letter(c) == c \in {"a", "b", "c", "d"}
WordChar(c) == Digit(c) \/ Letter(c) \/ Letter(LowerChar(c))

\* String.prototype.toLowerCase on one token
LowerWord(w) ==
  CASE w \in CodeWords -> Word([i \in 1..Len(Spell(w)) |-> LowerChar(Spell(w)[i])])
    [] w = "FAP" -> "fap"
    [] w = "Oui" -> "oui"
    [] w = "Peugeot" -> "peugeot"
    [] w = "Voyant" -> "voyant"
    [] w = "HDi" -> "hdi"
    [] OTHER -> w

\* String.prototype.toLowerCase
RECURSIVE toLowerCase(_)
toLowerCase(t) ==
  IF t = <<>> THEN <<>> ELSE <<LowerWord(Head(t))>> \o toLowerCase(Tail(t))

\* v || ""
OrEmpty(v) == IF v = Absent \/ v = EmptyStr THEN EmptyStr ELSE v

\* a + b on strings: the last token of a is glued to the first token of b
StrCat(a, b) ==
  SubSeq(a, 1, Len(a) - 1) \o <<a[Len(a)] \o b[1]>> \o SubSeq(b, 2, Len(b))

\* `${a} ${b}`
JoinSp(a, b) == a \o b

\* token w without the comma that follows it
Stem(w) ==
  CASE w = "puissance," -> "puissance"
    [] w = "particules," -> "particules"
    [] w = "degrade," -> "degrade"
    [] w = "allume," -> "allume"
    [] OTHER -> w

\* the literal lit occurs inside token w
Contains(w, lit) ==
  \/ Stem(w) = lit
  \/ w = "puissance/mode" /\ lit \in {"puissance", "mode"}
  \/ w = "demonter" /\ lit = "demonte"

\* token w ends with (starts with) the literal lit
EndsWith(w, lit) == w = lit \/ (w = "puissance/mode" /\ lit = "mode")
StartsWith(w, lit) ==
  \/ Stem(w) = lit
  \/ w = "puissance/mode" /\ lit = "puissance"
  \/ w = "demonter" /\ lit = "demonte"

\* /lit/.test(t)
ReWord(t, lit) == \E i \in 1..Len(t) : Contains(t[i], lit)

\* the literals p, each separated from the next by exactly one space, occur
\* in t from token i on
PhraseAt(t, p, i) ==
  /\ i >= 1
  /\ i + Len(p) - 1 <= Len(t)
  /\ \A k \in 1..Len(p) :
       IF Len(p) = 1 THEN Contains(t[i], p[1])
       ELSE IF k = 1 THEN EndsWith(t[i], p[1])
       ELSE IF k = Len(p) THEN StartsWith(t[i + k - 1], p[k])
       ELSE t[i + k - 1] = p[k]

\* /w1 w2 .. wn/.test(t)
RePhrase(t, p) == \E i \in 1..Len(t) : PhraseAt(t, p, i)

\* /a b/.test(t)
RePhrase2(t, a, b) == RePhrase(t, <<a, b>>)

\* /a b c/.test(t)
RePhrase3(t, a, b, c) == RePhrase(t, <<a, b, c>>)

\* /a.*b/.test(t)
ReGap(t, a, b) ==
  \E i \in 1..Len(t) : \E j \in 1..Len(t) :
    /\ Contains(t[i], a)
    /\ Contains(t[j], b)
    /\ (i < j \/ (i = j /\ a = "puissance" /\ b = "mode"))

\* v?.trim?.() is truthy: the slot holds a string with a non-blank character
Present(v) == \E i \in 1..Len(v) : v[i] # ""

\* !v is false: the slot holds a non-empty string
Truthy(v) == v # Absent /\ v # EmptyStr

\* ------------------------------------------------------------------ slots

SLOT_ORDER ==
  << "vehicle", "mileage", "driving", "lights", "symptoms", "codes", "adblue",
     "urgency", "canRemove", "postcode", "plate", "contactName", "phone" >>

REQUIRED_FOR_OFFER == <<"vehicle", "driving", "symptoms">>

SlotNames == {SLOT_ORDER[i] : i \in 1..Len(SLOT_ORDER)} \cup {"severe"}

\* the slot object {}
NoSlots == [k \in SlotNames |-> Absent]

\* ------------------------------------------------------------------ score

reFilter(txt) ==
  \/ ReWord(txt, "fap")
  \/ ReWord(txt, "dpf")
  \/ RePhrase2(txt, "risque", "colmatage")
  \/ RePhrase3(txt, "filtre", "a", "particules")

reShort(txt) ==
  \/ RePhrase2(txt, "petits", "trajets")
  \/ ReWord(txt, "ville")
  \/ RePhrase2(txt, "trajets", "courts")
  \/ RePhrase2(txt, "moteur", "froid")

rePowerOrSmoke(txt) ==
  \/ ReGap(txt, "perte", "puissance")
  \/ ReGap(txt, "plus", "puissance")
  \/ ReGap(txt, "pas", "puissance")
  \/ ReGap(txt, "mode", "degrade")
  \/ ReWord(txt, "fumee")

reHighway(txt) ==
  \/ RePhrase2(txt, "autoroute", "reguliere")
  \/ RePhrase2(txt, "longs", "trajets")

reHighwayExempt(txt) ==
  \/ ReGap(txt, "perte", "puissance")
  \/ ReGap(txt, "mode", "degrade")

Max(a, b) == IF a >= b THEN a ELSE b
Min(a, b) == IF a <= b THEN a ELSE b

scoredText(slots) ==
  toLowerCase(JoinSp(JoinSp(OrEmpty(slots["lights"]), OrEmpty(slots["symptoms"])),
                     OrEmpty(slots["driving"])))

\* fapScore with the AdBlue weight subtracted
rawScoreAdblueNegative(slots) ==
  LET txt == scoredText(slots)
  IN  (IF reFilter(txt) THEN 30 ELSE 0)
    + (IF reShort(txt) THEN 20 ELSE 0)
    + (IF rePowerOrSmoke(txt) THEN 30 ELSE 0)
    - (IF ReWord(txt, "adblue") THEN 15 ELSE 0)
    - (IF reHighway(txt) /\ ~reHighwayExempt(txt) THEN 20 ELSE 0)

rawScore(slots) ==
  LET txt == scoredText(slots)
  IN  (IF reFilter(txt) THEN 30 ELSE 0)
    + (IF reShort(txt) THEN 20 ELSE 0)
    + (IF rePowerOrSmoke(txt) THEN 30 ELSE 0)
    + (IF ReWord(txt, "adblue") THEN 15 ELSE 0)
    - (IF reHighway(txt) /\ ~reHighwayExempt(txt) THEN 20 ELSE 0)

\* fapScore without the lower clamp
clampNoFloor(s) == Min(100, s)

clamp(s) == Max(0, Min(100, s))

fapScore(slots) == clamp(rawScore(slots))

\* ---------------------------------------------------------------- routing

IDGARAGES_URL == "https://www.idgarages.com/fr-fr/prestations/diagnostic-electronique"
RE_FAP_URL == "https://auto.re-fap.fr"
CARTER_URL == "https://www.carter-cash.com/magasins/"

ctaDiag == [id |-> "cta_diag", type |-> "fap", url |-> IDGARAGES_URL]
ctaCarter == [id |-> "cta_carter", type |-> "fap", url |-> CARTER_URL]
\* process.env.CTA_GENERIC and process.env.CTA_FAP: not set
CTA_GENERIC == ""
CTA_FAP == ""

\* the generic CTA without the default URL
ctaGenericNoDefault ==
  [id |-> "cta_generic", type |-> "generic", url |-> CTA_GENERIC]

ctaGeneric ==
  [id |-> "cta_generic", type |-> "generic",
   url |-> IF CTA_GENERIC # "" THEN CTA_GENERIC ELSE IDGARAGES_URL]

ctaRefap == [id |-> "cta_refap", type |-> "info", url |-> RE_FAP_URL]
ctaRappel == [id |-> "cta_rappel", type |-> "callback", url |-> "#lead"]

\* the severity test with one shared regex object carrying the g flag: after a
\* match its lastIndex is past the text, so the next call finds nothing
isSevereGlobalRegex(slots) ==
  \/ slots["severe"] = <<"oui">>
  \/ /\ fnPc = "input"
     /\ LET s == toLowerCase(OrEmpty(slots["symptoms"]))
        IN  \/ ReGap(s, "perte", "puissance")
            \/ ReGap(s, "plus", "puissance")
            \/ ReGap(s, "pas", "puissance")
            \/ ReGap(s, "mode", "degrade")

isSevere(slots) ==
  \/ slots["severe"] = <<"oui">>
  \/ LET s == toLowerCase(OrEmpty(slots["symptoms"]))
     IN  \/ ReGap(s, "perte", "puissance")
         \/ ReGap(s, "plus", "puissance")
         \/ ReGap(s, "pas", "puissance")
         \/ ReGap(s, "mode", "degrade")

\* the tokens that start with the letter o
WordsInO == {"oui", "ok", "o"}

\* (slots.canRemove||"").toLowerCase().startsWith("o")
canRemoveYes(slots) ==
  LET c == toLowerCase(OrEmpty(slots["canRemove"]))
  IN  c[1] \in WordsInO

\* the needs list with plate asked before postcode
routingNeedsPlateFirst(slots) ==
  (IF ~Truthy(slots["plate"]) THEN <<"plate">> ELSE <<>>)
  \o (IF ~Truthy(slots["postcode"]) THEN <<"postcode">> ELSE <<>>)

routingNeeds(slots) ==
  (IF ~Truthy(slots["postcode"]) THEN <<"postcode">> ELSE <<>>)
  \o (IF ~Truthy(slots["plate"]) THEN <<"plate">> ELSE <<>>)

\* decideRouting with the severe row tested after the score >= 60 rows
decideRoutingScoreFirst(slots) ==
  LET score == fapScore(slots)
      tail == <<ctaRefap, ctaRappel>>
  IN  IF score >= 60
        THEN IF canRemoveYes(slots)
               THEN [score |-> score, route |-> "self_remove_cc",
                     ctas |-> <<ctaCarter>> \o tail, needs |-> <<>>]
               ELSE [score |-> score, route |-> "partner_garage",
                     ctas |-> <<ctaDiag>> \o tail,
                     needs |-> routingNeeds(slots)]
      ELSE IF isSevere(slots) /\ score >= 40
        THEN [score |-> score, route |-> "partner_garage",
              ctas |-> <<ctaDiag, ctaRefap, ctaRappel>>,
              needs |-> routingNeeds(slots)]
      ELSE IF score >= 40
        THEN [score |-> score, route |-> "likely_but_uncertain",
              ctas |-> <<ctaDiag>> \o tail, needs |-> <<>>]
      ELSE [score |-> score, route |-> "generic",
            ctas |-> <<ctaGeneric>> \o tail, needs |-> <<>>]

\* decideRouting with the high tier starting above 60
decideRoutingStrict60(slots) ==
  LET score == fapScore(slots)
      tail == <<ctaRefap, ctaRappel>>
  IN  IF isSevere(slots) /\ score >= 40
        THEN [score |-> score, route |-> "partner_garage",
              ctas |-> <<ctaDiag, ctaRefap, ctaRappel>>,
              needs |-> routingNeeds(slots)]
      ELSE IF score > 60
        THEN IF canRemoveYes(slots)
               THEN [score |-> score, route |-> "self_remove_cc",
                     ctas |-> <<ctaCarter>> \o tail, needs |-> <<>>]
               ELSE [score |-> score, route |-> "partner_garage",
                     ctas |-> <<ctaDiag>> \o tail,
                     needs |-> routingNeeds(slots)]
      ELSE IF score >= 40
        THEN [score |-> score, route |-> "likely_but_uncertain",
              ctas |-> <<ctaDiag>> \o tail, needs |-> <<>>]
      ELSE [score |-> score, route |-> "generic",
            ctas |-> <<ctaGeneric>> \o tail, needs |-> <<>>]

\* decideRouting with the common CTAs pushed before the route's own CTA
decideRoutingTailFirst(slots) ==
  LET score == fapScore(slots)
      tail == <<ctaRefap, ctaRappel>>
  IN  IF isSevere(slots) /\ score >= 40
        THEN [score |-> score, route |-> "partner_garage",
              ctas |-> <<ctaRefap, ctaRappel, ctaDiag>>,
              needs |-> routingNeeds(slots)]
      ELSE IF score >= 60
        THEN IF canRemoveYes(slots)
               THEN [score |-> score, route |-> "self_remove_cc",
                     ctas |-> tail \o <<ctaCarter>>, needs |-> <<>>]
               ELSE [score |-> score, route |-> "partner_garage",
                     ctas |-> tail \o <<ctaDiag>>,
                     needs |-> routingNeeds(slots)]
      ELSE IF score >= 40
        THEN [score |-> score, route |-> "likely_but_uncertain",
              ctas |-> tail \o <<ctaDiag>>, needs |-> <<>>]
      ELSE [score |-> score, route |-> "generic",
            ctas |-> tail \o <<ctaGeneric>>, needs |-> <<>>]

\* decideRouting whose severe row pushes its two CTAs and does not return
decideRoutingSevereFallsThrough(slots) ==
  LET score == fapScore(slots)
      tail == <<ctaRefap, ctaRappel>>
      head == IF isSevere(slots) /\ score >= 40
                THEN <<ctaDiag, ctaRefap>> ELSE <<>>
      needs0 == IF isSevere(slots) /\ score >= 40
                  THEN routingNeeds(slots) ELSE <<>>
  IN  IF score >= 60
        THEN IF canRemoveYes(slots)
               THEN [score |-> score, route |-> "self_remove_cc",
                     ctas |-> head \o <<ctaCarter>> \o tail, needs |-> needs0]
               ELSE [score |-> score, route |-> "partner_garage",
                     ctas |-> head \o <<ctaDiag>> \o tail,
                     needs |-> needs0 \o routingNeeds(slots)]
      ELSE IF score >= 40
        THEN [score |-> score, route |-> "likely_but_uncertain",
              ctas |-> head \o <<ctaDiag>> \o tail, needs |-> needs0]
      ELSE [score |-> score, route |-> "generic",
            ctas |-> head \o <<ctaGeneric>> \o tail, needs |-> needs0]

decideRouting(slots) ==
  LET score == fapScore(slots)
      tail == <<ctaRefap, ctaRappel>>
  IN  IF isSevere(slots) /\ score >= 40
        THEN [score |-> score, route |-> "partner_garage",
              ctas |-> <<ctaDiag, ctaRefap, ctaRappel>>,
              needs |-> routingNeeds(slots)]
      ELSE IF score >= 60
        THEN IF canRemoveYes(slots)
               THEN [score |-> score, route |-> "self_remove_cc",
                     ctas |-> <<ctaCarter>> \o tail, needs |-> <<>>]
               ELSE [score |-> score, route |-> "partner_garage",
                     ctas |-> <<ctaDiag>> \o tail,
                     needs |-> routingNeeds(slots)]
      ELSE IF score >= 40
        THEN [score |-> score, route |-> "likely_but_uncertain",
              ctas |-> <<ctaDiag>> \o tail, needs |-> <<>>]
      ELSE [score |-> score, route |-> "generic",
            ctas |-> <<ctaGeneric>> \o tail, needs |-> <<>>]

\* payload.ctas: (routing?.ctas || []).filter(Boolean).slice(0, 3)
payloadCtas(routing) == SubSeq(routing.ctas, 1, Min(3, Len(routing.ctas)))

\* ------------------------------------------------------- slot extraction

\* the symptom texts softExtractSlots writes
fragFap == <<"", "mention", "FAP">>
fragPower == <<"", "perte", "puissance/mode", "degrade">>

\* the literal lit occurs in token w between word boundaries
WordIn(w, lit) ==
  \/ Stem(w) = lit
  \/ w = "puissance/mode" /\ lit \in {"puissance", "mode"}

\* /\blit\b/.test(t)
ReWordB(t, lit) == \E i \in 1..Len(t) : WordIn(t[i], lit)

\* a word boundary that is never tested
BoundaryAnywhere(cs, i) == TRUE

\* \b before character i of a token: a word character on exactly one side
\* (the start and the end of a token have a space or nothing beside them)
Boundary(cs, i) ==
  (i > 1 /\ WordChar(cs[i - 1])) # (i <= Len(cs) /\ WordChar(cs[i]))

\* /\b\d{5}\b/ matches the characters of cs from position i on
PostcodeAt(cs, i) ==
  /\ i + 4 <= Len(cs)
  /\ \A k \in 0..4 : Digit(cs[i + k])
  /\ Boundary(cs, i)
  /\ Boundary(cs, i + 5)

\* /\b[A-Z]{2}-\d{3}-[A-Z]{2}\b/i matches the lower-cased cs from i on
PlateAt(cs, i) ==
  /\ i + 8 <= Len(cs)
  /\ \A k \in {0, 1, 7, 8} : Letter(cs[i + k])
  /\ \A k \in {2, 6} : cs[i + k] = "-"
  /\ \A k \in {3, 4, 5} : Digit(cs[i + k])
  /\ Boundary(cs, i)
  /\ Boundary(cs, i + 9)

\* the match of /\b\d{5}\b/ in one token, "" when there is none
Digits5(w) ==
  LET cs == Spell(w)
      at == {i \in 1..Len(cs) : PostcodeAt(cs, i)}
  IN  IF at = {} THEN ""
      ELSE LET i == CHOOSE x \in at : \A y \in at : x <= y
           IN  Word(SubSeq(cs, i, i + 4))

\* the match of /\b[A-Z]{2}-\d{3}-[A-Z]{2}\b/i in one token, "" when none
PlateIn(w) ==
  LET cs == Spell(w)
      at == {i \in 1..Len(cs) : PlateAt(cs, i)}
  IN  IF at = {} THEN ""
      ELSE LET i == CHOOSE x \in at : \A y \in at : x <= y
           IN  Word(SubSeq(cs, i, i + 8))

\* String.prototype.toUpperCase on one token
UpperWord(w) ==
  IF w \in CodeWords
    THEN Word([i \in 1..Len(Spell(w)) |-> UpperChar(Spell(w)[i])])
  ELSE w

\* t.match(/\b\d{5}\b/)?.[0]: the match in the first token that has one, ""
\* when no token has one
RECURSIVE firstPostcode(_)
firstPostcode(t) ==
  IF t = <<>> THEN ""
  ELSE LET hit == Digits5(Head(t))
       IN  IF hit # "" THEN hit ELSE firstPostcode(Tail(t))

\* t.match(/\b[A-Z]{2}-\d{3}-[A-Z]{2}\b/i)?.[0]
RECURSIVE firstPlate(_)
firstPlate(t) ==
  IF t = <<>> THEN ""
  ELSE LET hit == PlateIn(Head(t))
       IN  IF hit # "" THEN hit ELSE firstPlate(Tail(t))

\* the filter regex with only its first alternative
reMentionsFapWordOnly(t) == ReWordB(t, "fap")

reMentionsFap(t) ==
  \/ ReWordB(t, "fap")
  \/ ReWordB(t, "dpf")
  \/ RePhrase3(t, "filtre", "a", "particules")
  \/ RePhrase2(t, "risque", "colmatage")

reMentionsPower(t) ==
  \/ RePhrase2(t, "mode", "degrade")
  \/ RePhrase3(t, "perte", "de", "puissance")
  \/ RePhrase3(t, "plus", "de", "puissance")
  \/ RePhrase3(t, "pas", "de", "puissance")

reCannotRegen(t) ==
  \/ RePhrase(t, <<"ne", "peux", "pas", "regenerer">>)
  \/ RePhrase(t, <<"impossible", "de", "regenerer">>)

reCanRemove(t) ==
  \/ RePhrase2(t, "je", "peux")
  \/ \E i \in 1..Len(t) :
       /\ PhraseAt(t, <<"je", "sais">>, i)
       /\ \E j \in (i + 2)..Len(t) : Contains(t[j], "demonter")
  \/ ReGap(t, "moi", "demonter")

reCannotRemove(t) ==
  \/ RePhrase(t, <<"je", "ne", "peux", "pas">>)
  \/ RePhrase(t, <<"je", "ne", "sais", "pas">>)

\* a softExtractSlots that also fills the vehicle slot from a make it reads
softExtractSlotsWithVehicle(text) ==
  LET t == toLowerCase(IF text = Absent THEN EmptyStr ELSE text)
      sym1 == IF reMentionsFap(t) THEN StrCat(EmptyStr, fragFap) ELSE Absent
      sym2 == IF reMentionsPower(t) THEN StrCat(OrEmpty(sym1), fragPower)
              ELSE sym1
      cp == firstPostcode(t)
      plate == firstPlate(t)
  IN  [k \in SlotNames |->
        CASE k = "symptoms" -> sym2
          [] k = "vehicle" -> IF ReWord(t, "peugeot") THEN <<"peugeot">> ELSE Absent
          [] k = "adblue" -> IF ReWord(t, "adblue") THEN <<"oui">> ELSE Absent
          [] k = "severe" ->
               IF reMentionsPower(t) \/ reCannotRegen(t) THEN <<"oui">>
               ELSE Absent
          [] k = "postcode" -> IF cp # "" THEN <<cp>> ELSE Absent
          [] k = "plate" -> IF plate # "" THEN <<UpperWord(plate)>> ELSE Absent
          [] k = "canRemove" ->
               IF reCannotRemove(t) THEN <<"non">>
               ELSE IF reCanRemove(t) THEN <<"oui">>
               ELSE Absent
          [] OTHER -> Absent]

\* the object softExtractSlots returns; a key it does not set is Absent
softExtractSlots(text) ==
  LET t == toLowerCase(IF text = Absent THEN EmptyStr ELSE text)
      sym1 == IF reMentionsFap(t) THEN StrCat(EmptyStr, fragFap) ELSE Absent
      sym2 == IF reMentionsPower(t) THEN StrCat(OrEmpty(sym1), fragPower)
              ELSE sym1
      cp == firstPostcode(t)
      plate == firstPlate(t)
  IN  [k \in SlotNames |->
        CASE k = "symptoms" -> sym2
          [] k = "adblue" -> IF ReWord(t, "adblue") THEN <<"oui">> ELSE Absent
          [] k = "severe" ->
               IF reMentionsPower(t) \/ reCannotRegen(t) THEN <<"oui">>
               ELSE Absent
          [] k = "postcode" -> IF cp # "" THEN <<cp>> ELSE Absent
          [] k = "plate" -> IF plate # "" THEN <<UpperWord(plate)>> ELSE Absent
          [] k = "canRemove" ->
               IF reCannotRemove(t) THEN <<"non">>
               ELSE IF reCanRemove(t) THEN <<"oui">>
               ELSE Absent
          [] OTHER -> Absent]

\* extractSignals(text): each flag is its PATTERNS regex tested on the
\* lower-cased text (words are written without their accents in this module)
extractSignals(text) ==
  LET t == toLowerCase(IF text = Absent THEN EmptyStr ELSE text)
  IN  [ nonDrivable |->
          \/ RePhrase2(t, "demarre", "pas")
          \/ RePhrase3(t, "impossible", "de", "demarrer")
          \/ RePhrase3(t, "ne", "roule", "pas")
          \/ RePhrase(t, <<"ne", "peut", "pas", "rouler">>)
          \/ RePhrase3(t, "a", "l'arret", "complet")
          \/ ReWord(t, "cale") \/ ReWord(t, "cala")
          \/ ReWord(t, "s'arrete") \/ ReWord(t, "stall"),
        powerLoss |->
          \/ RePhrase3(t, "plus", "de", "puissance")
          \/ RePhrase3(t, "perte", "de", "puissance")
          \/ RePhrase2(t, "mode", "degrade")
          \/ ReWord(t, "bride") \/ ReWord(t, "limp"),
        fapLight |->
          \/ RePhrase2(t, "voyant", "fap") \/ ReWord(t, "voyantfap")
          \/ RePhrase3(t, "filtre", "a", "particules"),
        engineLight |->
          \/ RePhrase2(t, "voyant", "moteur")
          \/ RePhrase2(t, "voyant", "orange")
          \/ RePhrase2(t, "check", "engine"),
        regenFailed |->
          \/ \E r \in {"regeneration", "regenerer"} :
               \/ RePhrase2(t, r, "rate")
               \/ RePhrase(t, <<r, "ne", "se", "fait", "pas">>)
               \/ RePhrase2(t, r, "impossible")
          \/ ReGap(t, "autoroute", "inutile")
          \/ \E i \in 1..Len(t) : \E j \in (i + 1)..Len(t) :
               Contains(t[i], "autoroute") /\ PhraseAt(t, <<"sans", "effet">>, j),
        fapRemoved |->
          \/ ReGap(t, "fap", "demonte")
          \/ \E i \in 1..Len(t) : \E j \in (i + 1)..Len(t) :
               Contains(t[i], "fap") /\ WordIn(t[j], "retire")
          \/ ReGap(t, "demonte", "fap"),
        diy |->
          \/ RePhrase3(t, "je", "peux", "demonter")
          \/ RePhrase3(t, "je", "sais", "demonter")
          \/ RePhrase(t, <<"je", "le", "fais", "moi-meme">>)
          \/ RePhrase(t, <<"je", "le", "fais", "moi", "meme">>)
          \/ ReWord(t, "bricoleur"),
        smokeBlack |-> RePhrase2(t, "fumee", "noire"),
        smokeBlue |-> RePhrase2(t, "fumee", "bleue"),
        smokeWhite |-> RePhrase2(t, "fumee", "blanche"),
        shortTrips |->
          \/ RePhrase2(t, "petits", "trajets")
          \/ RePhrase2(t, "trajets", "courts")
          \/ RePhrase2(t, "ville", "uniquement"),
        adblue |-> ReWordB(t, "adblue"),
        egr |-> ReWordB(t, "egr"),
        fapCodeHit |->
          \E c \in {"p2002", "p242f", "p244a", "p2463", "p2452", "p2453"} :
            ReWordB(t, c) ]

\* the target replaced by the source, the keys it lacks included
objectAssignReplace(target, source) == source

\* Object.assign(target, source): every key of source overwrites the target's
objectAssign(target, source) ==
  [k \in SlotNames |-> IF source[k] # Absent THEN source[k] ELSE target[k]]

\* readyForOffer with some() in place of every()
readyForOfferAny(slots) ==
  \E i \in 1..Len(REQUIRED_FOR_OFFER) : Present(slots[REQUIRED_FOR_OFFER[i]])

readyForOffer(slots) ==
  \A i \in 1..Len(REQUIRED_FOR_OFFER) : Present(slots[REQUIRED_FOR_OFFER[i]])

\* the first slot of SLOT_ORDER that is not present, "" (null) when none
nextMissingSlot(slots) ==
  IF \E i \in 1..Len(SLOT_ORDER) : ~Present(slots[SLOT_ORDER[i]])
    THEN SLOT_ORDER[CHOOSE i \in 1..Len(SLOT_ORDER) :
                      /\ ~Present(slots[SLOT_ORDER[i]])
                      /\ \A j \in 1..(i - 1) : Present(slots[SLOT_ORDER[j]])]
    ELSE ""

\* ------------------------------------------------------------------- chat

SessionIds == {"s1", "s2"}
\* the order in which unused ids are handed out
sidLeq(a, b) == a = b \/ a = "s1"
\* no sessionId in the request body
NoSid == ""
\* the id the mock branch makes up when the body has none
MockSid == "generated"

mVehicle == <<"Peugeot", "206", "1.6", "HDi", "2010">>
mFap == <<"voyant", "FAP">>
mPower == <<"perte", "de", "puissance">>
mPlateCp == <<"AA-123-AA", "75001">>
mCanYes == <<"je", "peux", "demonter">>

\* message values of a request body: strings, and what is not a valid message
GoodMessages ==
  {[type |-> "string", text |-> m] :
     m \in {mVehicle, mFap, mPower, mPlateCp}}
BadMessages ==
  { [type |-> "undefined", text |-> Absent],
    [type |-> "string", text |-> EmptyStr],
    [type |-> "number", text |-> Absent] }

\* the bodies sent with ?mock=1
MockMessages ==
  {[type |-> "string", text |-> mFap], [type |-> "undefined", text |-> Absent]}

\* the validation with only its typeof test
messageRejectedTypeOnly(m) == m.type # "string"

\* !message || typeof message !== "string"
messageRejected(m) == m.type # "string" \/ ~Truthy(m.text)

NoRes == [score |-> 0, route |-> "none", ctas |-> <<>>, needs |-> <<>>]

\* a session of the Map; arrived is not held by the program: it lists the
\* messages merged into the session's slots so far, in the order of the merges
NoSession ==
  [exists |-> FALSE, slots |-> NoSlots, mode |-> "", history |-> <<>>,
   arrived |-> <<>>]
NewSession ==
  [exists |-> TRUE, slots |-> NoSlots, mode |-> "diag", history |-> <<>>,
   arrived |-> <<>>]

NoCta == [id |-> "", type |-> "", url |-> ""]

\* a handler: sources and ragError are the handler's variables of those names
\* (the number of sources retrieved, and whether the retrieval failed)
IdleReq ==
  [pc |-> "idle", sid |-> NoSid, msg |-> Absent, stage |-> "",
   routing |-> NoRes, seen |-> NoSlots, ext |-> NoSlots,
   sources |-> 0, ragError |-> FALSE]

\* a response: the payload fields the claims read, and what the turn computed
\* for it (route and score of its routing, the slots it decided on, the slots
\* its message yielded, the number of sources it retrieved, whether its
\* retrieval failed) and whether its request held no non-empty string message,
\* which the payload does not carry
NoResp ==
  [kind |-> "none", status |-> 0, sid |-> NoSid, stage |-> "", next |-> "",
   ctas |-> <<>>, cta |-> NoCta, route |-> "", score |-> 0,
   seen |-> NoSlots, ext |-> NoSlots, badBody |-> FALSE,
   sources |-> 0, ragError |-> FALSE]

\* the text the model answers with, and the static texts used without a client
LlmText == <<"Va", "chez", "Idgarages", "https://www.idgarages.com">>
FallbackText(stage) ==
  IF stage = "diag" THEN <<"OK.", "Donne-moi", "le", "modele">>
  ELSE <<"Je", "te", "recommande", "un", "passage", "FAP">>

\* sanitizeReply on one token: URLs and the partner's brand name are replaced
\* (the reply texts above hold no "CTA ...:" line, no "bouton principal" and
\* no blank at either end, so the other replacements and trim() change nothing)
sanitizeWord(w) ==
  CASE w = "https://www.idgarages.com" ->
         <<"[utilise", "le", "**bouton", "ci-dessous**]">>
    [] w = "Idgarages" -> <<"nos", "garages", "partenaires">>
    [] OTHER -> <<w>>

RECURSIVE sanitizeReply(_)
sanitizeReply(t) ==
  IF t = <<>> THEN <<>> ELSE sanitizeWord(Head(t)) \o sanitizeReply(Tail(t))

\* pickFallbackCTA(msg)
pickFallbackCTA(msg) ==
  LET t == toLowerCase(msg)
      hasFap == ReWordB(t, "fap") \/ RePhrase3(t, "filtre", "a", "particules")
  IN  IF hasFap /\ CTA_FAP # ""
        THEN [id |-> "fallback_fap", type |-> "fap", url |-> CTA_FAP]
      ELSE IF CTA_GENERIC # ""
        THEN [id |-> "fallback_generic", type |-> "generic", url |-> CTA_GENERIC]
      ELSE NoCta

\* the CTAs of the mock reply carry no type
mockCtas ==
  << [id |-> "cta_diag", type |-> "", url |-> IDGARAGES_URL],
     [id |-> "cta_refap", type |-> "", url |-> RE_FAP_URL],
     [id |-> "cta_rappel", type |-> "", url |-> "#lead"] >>

\* next computed as in the diag stage, whatever the stage
nextQuestionAnyStage(stage, routing, slots) == nextMissingSlot(slots)

\* next: the question to ask after this turn
nextQuestion(stage, routing, slots) ==
  IF stage = "diag" THEN nextMissingSlot(slots)
  ELSE IF routing.route = "partner_garage" /\ Len(routing.needs) > 0
    THEN routing.needs[1]
  ELSE ""

\* the JSON payload of a successful turn
okPayload(sid, msg, stage, routing, slots, seen, ext) ==
  [kind |-> "ok", status |-> 200, sid |-> sid, stage |-> stage,
   next |-> nextQuestion(stage, routing, slots),
   ctas |-> payloadCtas(routing),
   cta |-> IF Len(routing.ctas) > 0 THEN routing.ctas[1]
           ELSE pickFallbackCTA(msg),
   route |-> routing.route, score |-> routing.score,
   seen |-> seen, ext |-> ext, badBody |-> msg \in {Absent, EmptyStr},
   sources |-> 0, ragError |-> FALSE]

\* the two entries pushed in the other order
pushTurnReplyFirst(sess, msg, clean) ==
  [sess EXCEPT !.history =
     @ \o << [role |-> "assistant", content |-> clean],
             [role |-> "user", content |-> msg] >>]

\* sess.history.push(user entry); sess.history.push(assistant entry)
pushTurn(sess, msg, clean) ==
  [sess EXCEPT !.history =
     @ \o << [role |-> "user", content |-> msg],
             [role |-> "assistant", content |-> clean] >>]

\* ----------------------------------------- the lead and stream endpoints, idle

\* the response of POST /api/lead, with the name and phone of its request and
\* whether the handler called the insert, which the response does not carry
NoLeadRes ==
  [status |-> 0, ok |-> FALSE, leadId |-> 0, name |-> Absent, phone |-> Absent,
   tried |-> FALSE]

LeadIdle == leads = <<>> /\ leadRes = NoLeadRes

\* the prompts of the stream requests
StreamPrompts == {<<"voyant", "FAP">>, <<"perte", "de", "puissance">>}

\* the prompts whose keys are compared: the first again in another letter
\* case and with a run of two blanks, with a line feed between the words, and
\* with a run of two line feeds
KeyPrompts ==
  StreamPrompts \cup {<<"Voyant", "", "fap">>, <<"voyant", "[LF]", "fap">>,
                      <<"voyant", "[LF]", "[LF]", "fap">>}

\* the tokens that stand for white space between two words: "" is one more
\* blank, "[LF]" a line feed
WhiteTokens == {"", "[LF]"}

\* a serialization that leaves the line feeds of the content as they are
JSONstringifyRaw(s) == s

\* JSON.stringify(messages): a line feed of the content is written as the
\* escape \n, two characters that are not white space
RECURSIVE JSONstringify(_)
JSONstringify(s) ==
  IF s = <<>> THEN <<>>
  ELSE <<IF Head(s) = "[LF]" THEN "\\n" ELSE Head(s)>> \o JSONstringify(Tail(s))

\* norm(s): trim, lower-case, runs of white space collapsed to one blank
norm(s) ==
  LET t == SelectSeq(toLowerCase(s), LAMBDA w : w \notin WhiteTokens)
  IN  IF t = <<>> THEN EmptyStr ELSE t

\* the text of a model stream is a sequence of characters (its length counts)
NoText == <<>>

\* a key the Map does not hold; by is not held by the program: it is the
\* prompt of the request that wrote the entry
NoEntry == [has |-> FALSE, value |-> NoText, exp |-> 0, by |-> Absent]

\* a stream handler: its position, its prompt, its cache key, what cacheGet returned to
\* it (NoText for null), whether it called the model, the state of its
\* timeout timer, the text received so far and the data events written
IdleStream ==
  [pc |-> "idle", prompt |-> Absent, key |-> EmptyStr, cached |-> NoText,
   llm |-> FALSE, timer |-> "off", fullText |-> NoText, events |-> <<>>]

StreamIdle ==
  /\ cache = [k \in {norm(JSONstringify(q)) : q \in KeyPrompts} |-> NoEntry]
  /\ now = 0
  /\ streams = [i \in 1..MaxStreams |-> IdleStream]
  /\ lastStream = IdleStream
  /\ nstreams = 0

ChatIdle ==
  /\ openai = FALSE
  /\ sessions = [sid \in SessionIds |-> NoSession]
  /\ reqs = [i \in 1..MaxInFlight |-> IdleReq]
  /\ last = NoResp
  /\ nturns = 0

FnIdle ==
  /\ fnPc = "input"
  /\ fnText = Absent
  /\ fnSlots = NoSlots
  /\ fnScore = 0
  /\ fnPrevScore = 0
  /\ fnAdded = <<>>
  /\ fnRes = NoRes
  /\ fnStage = ""
  /\ fnNext = ""

\* the server after start, without an OpenAI key: every endpoint idle
InitIdle == ChatIdle /\ FnIdle /\ LeadIdle /\ StreamIdle

Init ==
  /\ openai \in BOOLEAN
  /\ sessions = [sid \in SessionIds |-> NoSession]
  /\ reqs = [i \in 1..MaxInFlight |-> IdleReq]
  /\ last = NoResp
  /\ nturns = 0
  /\ FnIdle
  /\ LeadIdle
  /\ StreamIdle

\* session ids are opaque: the ids not yet in the Map are interchangeable, so
\* a new session always takes the first unused one
UnusedSids == {sid \in SessionIds : ~sessions[sid].exists}
NextUnusedSid == CHOOSE sid \in UnusedSids : \A o \in UnusedSids : sidLeq(sid, o)

\* the session id of a turn when the body's id is ignored
TurnSidsAlwaysFresh(sidIn) ==
  IF UnusedSids = {} THEN {} ELSE {NextUnusedSid}

\* the session id of a turn: the body's (a known id, or an id the Map does
\* not hold yet), or a freshly generated one when the body has none
TurnSids(sidIn) ==
  IF sidIn # NoSid /\ sessions[sidIn].exists THEN {sidIn}
  ELSE IF UnusedSids = {} THEN {}
  ELSE IF sidIn = NoSid \/ sidIn = NextUnusedSid THEN {NextUnusedSid}
  ELSE {}

\* the merge done on one slot object that every session shares
mergedSessionsShared(sid, msg) ==
  [o \in SessionIds |->
     IF o = sid \/ sessions[o].exists
       THEN [(IF sessions[o].exists THEN sessions[o] ELSE NewSession) EXCEPT
               !.slots = objectAssign(@, softExtractSlots(msg)),
               !.arrived = IF o = sid THEN Append(@, msg) ELSE @]
       ELSE sessions[o]]

\* lines 573-577: the session is looked up or created and the message merged
mergedSessions(sid, msg) ==
  LET sess == IF sessions[sid].exists THEN sessions[sid] ELSE NewSession
  IN  [sessions EXCEPT ![sid] =
         [sess EXCEPT !.slots = objectAssign(@, softExtractSlots(msg)),
                      !.arrived = Append(@, msg)]]

\* POST /api/chat?mock=1: a canned reply, whatever the body
ChatMock(sidIn, m) ==
  LET sid == IF sidIn # NoSid THEN sidIn ELSE MockSid
      payload == [kind |-> "mock", status |-> 200, sid |-> sid,
                  stage |-> "diag", next |-> "lights", ctas |-> mockCtas,
                  cta |-> NoCta, route |-> "", score |-> 0,
                  seen |-> NoSlots, ext |-> NoSlots,
                  badBody |-> m \in BadMessages,
                  sources |-> 0, ragError |-> FALSE]
  IN  /\ last' = payload
      /\ UNCHANGED <<openai, sessions, reqs, nturns>>
      /\ UNCHANGED <<fnVars, leadVars, streamVars>>

\* POST /api/chat with a missing, empty or non-string message: 400
ChatBad(sidIn, m) ==
  /\ messageRejected(m)
  /\ last' = [NoResp EXCEPT !.kind = "bad", !.status = 400,
                            !.badBody = m \in BadMessages]
  /\ UNCHANGED <<openai, sessions, reqs, nturns>>
  /\ UNCHANGED <<fnVars, leadVars, streamVars>>

\* POST /api/chat without an OpenAI client: the handler runs to its reply
\* without waiting on any collaborator
TurnSync(sidIn, m) ==
  /\ ~openai
  /\ ~messageRejected(m)
  /\ \E sid \in TurnSids(sidIn) :
       LET merged == mergedSessions(sid, m.text)
           slots == merged[sid].slots
           stage == IF readyForOffer(slots) THEN "offer" ELSE "diag"
           routing == decideRouting(slots)
           clean == sanitizeReply(FallbackText(stage))
           payload == okPayload(sid, m.text, stage, routing, slots, slots,
                                softExtractSlots(m.text))
       IN  /\ sessions' = [merged EXCEPT ![sid] = pushTurn(@, m.text, clean)]
           /\ last' = payload
  /\ nturns' = nturns + 1
  /\ UNCHANGED <<openai, reqs>>
  /\ UNCHANGED <<fnVars, leadVars, streamVars>>

\* a valid turn of a run without an OpenAI client
ChatTurnSync(sidIn, m) == nturns < MaxTurns /\ TurnSync(sidIn, m)

\* POST /api/chat with an OpenAI client, up to the first await (the retrieval)
ChatTurnBegin(i, sidIn, m) ==
  /\ openai
  /\ ~messageRejected(m)
  /\ nturns < MaxTurns
  /\ reqs[i].pc = "idle"
  /\ \A j \in 1..(i - 1) : reqs[j].pc # "idle"
  /\ \E sid \in TurnSids(sidIn) :
       /\ sessions' = mergedSessions(sid, m.text)
       /\ reqs' = [reqs EXCEPT ![i] =
                     [IdleReq EXCEPT !.pc = "rag", !.sid = sid, !.msg = m.text,
                                     !.ext = softExtractSlots(m.text)]]
  /\ nturns' = nturns + 1
  /\ UNCHANGED <<openai, last>>
  /\ UNCHANGED <<fnVars, leadVars, streamVars>>

\* the retrieval has ended, its outcome not told apart (a failure is caught):
\* stage and routing are computed from the session's slots, then the model is
\* called
ChatDecide(i) ==
  /\ reqs[i].pc = "rag"
  /\ LET slots == sessions[reqs[i].sid].slots
     IN  reqs' = [reqs EXCEPT ![i].pc = "llm",
                              ![i].stage = IF readyForOffer(slots) THEN "offer"
                                           ELSE "diag",
                              ![i].routing = decideRouting(slots),
                              ![i].seen = slots]
  /\ UNCHANGED <<openai, sessions, last, nturns>>
  /\ UNCHANGED <<fnVars, leadVars, streamVars>>

\* the model has answered: history is extended and the reply sent
ChatReply(i) ==
  /\ reqs[i].pc = "llm"
  /\ LET r == reqs[i]
         payload == okPayload(r.sid, r.msg, r.stage, r.routing,
                              sessions[r.sid].slots, r.seen, r.ext)
     IN  /\ sessions' = [sessions EXCEPT ![r.sid] =
                           pushTurn(@, r.msg, sanitizeReply(LlmText))]
         /\ last' = [payload EXCEPT !.sources = r.sources,
                                    !.ragError = r.ragError]
  /\ reqs' = [reqs EXCEPT ![i] = IdleReq]
  /\ UNCHANGED <<openai, nturns>>
  /\ UNCHANGED <<fnVars, leadVars, streamVars>>

\* a catch that undoes the turn: the session is put back as it was created
ChatLlmFailRollback(i) ==
  /\ reqs[i].pc = "llm"
  /\ last' = [NoResp EXCEPT !.kind = "error", !.status = 500]
  /\ reqs' = [reqs EXCEPT ![i] = IdleReq]
  /\ sessions' = [sessions EXCEPT ![reqs[i].sid].slots = NoSlots]
  /\ UNCHANGED <<openai, nturns>>
  /\ UNCHANGED <<fnVars, leadVars, streamVars>>

\* the model call throws or times out: the catch answers 500
ChatLlmFail(i) ==
  /\ reqs[i].pc = "llm"
  /\ last' = [NoResp EXCEPT !.kind = "error", !.status = 500]
  /\ reqs' = [reqs EXCEPT ![i] = IdleReq]
  /\ UNCHANGED <<openai, sessions, nturns>>
  /\ UNCHANGED <<fnVars, leadVars, streamVars>>

Next ==
  \/ \E sidIn \in {"s1", NoSid}, m \in MockMessages : ChatMock(sidIn, m)
  \/ \E sidIn \in {"s1", NoSid}, m \in GoodMessages \cup BadMessages :
       ChatBad(sidIn, m)
  \/ \E sidIn \in SessionIds \cup {NoSid}, m \in GoodMessages \cup BadMessages :
       ChatTurnSync(sidIn, m)
  \/ \E i \in 1..MaxInFlight, sidIn \in SessionIds \cup {NoSid},
        m \in GoodMessages \cup BadMessages : ChatTurnBegin(i, sidIn, m)
  \/ \E i \in 1..MaxInFlight : ChatDecide(i)
  \/ \E i \in 1..MaxInFlight : ChatReply(i)
  \/ \E i \in 1..MaxInFlight : ChatLlmFail(i)

Spec == Init /\ [][Next]_vars

\* ------------------------------------------- the retrieval and its failure

\* lines 583-586: the table check and ragSearch have answered with n sources
\* (none or some)
ChatRagOk(i, n) ==
  /\ reqs[i].pc = "rag"
  /\ LET slots == sessions[reqs[i].sid].slots
     IN  reqs' = [reqs EXCEPT ![i].pc = "llm",
                              ![i].stage = IF readyForOffer(slots) THEN "offer"
                                           ELSE "diag",
                              ![i].routing = decideRouting(slots),
                              ![i].seen = slots,
                              ![i].sources = n]
  /\ UNCHANGED <<openai, sessions, last, nturns>>
  /\ UNCHANGED <<fnVars, leadVars, streamVars>>

\* the retrieval failure taken as the failure of the turn
ChatRagFailUncaught(i) ==
  /\ reqs[i].pc = "rag"
  /\ last' = [NoResp EXCEPT !.kind = "error", !.status = 500,
                            !.ragError = TRUE]
  /\ reqs' = [reqs EXCEPT ![i] = IdleReq]
  /\ UNCHANGED <<openai, sessions, nturns>>
  /\ UNCHANGED <<fnVars, leadVars, streamVars>>

\* lines 583-587: the table check, the embedding call or the similarity query
\* throws (the embedding call also when its 15 s are over); the catch keeps
\* the error, sources and context stay empty and the handler goes on
ChatRagFail(i) ==
  /\ reqs[i].pc = "rag"
  /\ LET slots == sessions[reqs[i].sid].slots
     IN  reqs' = [reqs EXCEPT ![i].pc = "llm",
                              ![i].stage = IF readyForOffer(slots) THEN "offer"
                                           ELSE "diag",
                              ![i].routing = decideRouting(slots),
                              ![i].seen = slots,
                              ![i].ragError = TRUE]
  /\ UNCHANGED <<openai, sessions, last, nturns>>
  /\ UNCHANGED <<fnVars, leadVars, streamVars>>

NextRag ==
  \/ \E i \in 1..MaxInFlight, m \in GoodMessages : ChatTurnBegin(i, "s1", m)
  \/ \E i \in 1..MaxInFlight, n \in {0, 1} : ChatRagOk(i, n)
  \/ \E i \in 1..MaxInFlight : ChatRagFail(i)
  \/ \E i \in 1..MaxInFlight : ChatReply(i)
  \/ \E i \in 1..MaxInFlight : ChatLlmFail(i)

\* one client of a server with an OpenAI key
InitRag == Init /\ openai

SpecRag == InitRag /\ [][NextRag]_vars

\* ------------------------------------------------------- POST /api/lead

\* request bodies: each field missing, empty or filled (vehicle, postcode and
\* message are passed to the insert like email and left out)
LeadBodies ==
  [sessionId : {Absent, <<"s1">>},
   name : {Absent, EmptyStr, <<"Jean">>},
   phone : {Absent, EmptyStr, <<"0601020304">>},
   email : {Absent, <<"jean@example.fr">>}]

\* v || null
OrNull(v) == IF Truthy(v) THEN v ELSE Absent

\* the answer with a failed insert reported as a server error
leadAnswerStrict(body, stored, id) ==
  IF ~Truthy(body.name) \/ ~Truthy(body.phone)
    THEN [NoLeadRes EXCEPT !.status = 400, !.name = body.name,
                           !.phone = body.phone]
  ELSE IF stored
    THEN [status |-> 200, ok |-> TRUE, leadId |-> id, name |-> body.name,
          phone |-> body.phone, tried |-> TRUE]
  ELSE [status |-> 500, ok |-> FALSE, leadId |-> 0, name |-> body.name,
        phone |-> body.phone, tried |-> TRUE]

\* the answer of the handler: 400 before any insert when name or phone is
\* falsy, else ok: true, with the row's id when the insert returned one
leadAnswer(body, stored, id) ==
  IF ~Truthy(body.name) \/ ~Truthy(body.phone)
    THEN [NoLeadRes EXCEPT !.status = 400, !.name = body.name,
                           !.phone = body.phone]
  ELSE [status |-> 200, ok |-> TRUE, leadId |-> IF stored THEN id ELSE 0,
        name |-> body.name, phone |-> body.phone, tried |-> TRUE]

\* POST /api/lead; dbOk: the insert succeeds (else pool.query throws)
LeadPost(body, dbOk) ==
  LET stored == dbOk /\ Truthy(body.name) /\ Truthy(body.phone)
      row == [session_id |-> OrNull(body.sessionId), name |-> body.name,
              phone |-> body.phone, email |-> OrNull(body.email)]
  IN  /\ stored => Len(leads) < MaxLeads
      /\ leads' = IF stored THEN Append(leads, row) ELSE leads
      /\ leadRes' = leadAnswer(body, stored, Len(leads) + 1)
      /\ UNCHANGED <<chatVars, fnVars, streamVars>>

NextLead == \E body \in LeadBodies, dbOk \in BOOLEAN : LeadPost(body, dbOk)
SpecLead == InitIdle /\ [][NextLead]_vars

\* ------------------------------------------- /api/diagnose/stream (SSE)

\* STREAM_CACHE_TTL_MS, in ticks
cacheTtl == 1

\* a cacheGet that answers null for an expired entry and leaves it in the Map
cacheGetNoDelete(k) ==
  IF cache[k].has /\ now <= cache[k].exp
    THEN [value |-> cache[k].value, cache |-> cache]
    ELSE [value |-> NoText, cache |-> cache]

\* cacheGet(k): the value returned (NoText for null) and the Map afterwards,
\* from which an entry read after its expiry is deleted
cacheGet(k) ==
  IF ~cache[k].has THEN [value |-> NoText, cache |-> cache]
  ELSE IF now > cache[k].exp
    THEN [value |-> NoText, cache |-> [cache EXCEPT ![k] = NoEntry]]
  ELSE [value |-> cache[k].value, cache |-> cache]

\* cacheSet(k, v, ttlMs): the Map afterwards
cacheSet(k, v, ttlMs) ==
  [cache EXCEPT ![k] = [has |-> TRUE, value |-> v, exp |-> now + ttlMs,
                        by |-> Absent]]

\* s.trim() is not empty
NotBlank(s) == \E n \in 1..Len(s) : s[n] # " "

\* the cached text replayed with its second half cut one character short
replayOffByOne(cached) ==
  IF Len(cached) <= 400 THEN <<[type |-> "delta", data |-> cached]>>
  ELSE LET mid == Len(cached) \div 2
       IN  << [type |-> "delta", data |-> SubSeq(cached, 1, mid)],
              [type |-> "delta", data |-> SubSeq(cached, mid + 2, Len(cached))] >>

\* the delta events that replay a cached text: cached.slice(0, mid) is the
\* characters 1..mid and cached.slice(mid) the characters mid+1..length
replay(cached) ==
  IF Len(cached) <= 400 THEN <<[type |-> "delta", data |-> cached]>>
  ELSE LET mid == Len(cached) \div 2
       IN  << [type |-> "delta", data |-> SubSeq(cached, 1, mid)],
              [type |-> "delta", data |-> SubSeq(cached, mid + 1, Len(cached))] >>

DoneEvent == [type |-> "done", data |-> NoText]
ErrorEvent == [type |-> "error", data |-> NoText]

\* a request arrives, with prompt q or with none (Absent): up to the answer
\* from the cache, or up to the await of the model call
StreamBegin(i, q) ==
  /\ nstreams < MaxRequests
  /\ streams[i].pc = "idle"
  /\ \A j \in 1..(i - 1) : streams[j].pc # "idle"
  /\ nstreams' = nstreams + 1
  /\ IF q = Absent
       THEN /\ lastStream' = [IdleStream EXCEPT !.pc = "ended",
                                                !.events = <<ErrorEvent>>]
            /\ UNCHANGED <<cache, streams>>
       ELSE LET key == norm(JSONstringify(q))
                got == cacheGet(key)
            IN  /\ cache' = got.cache
                /\ IF got.value # NoText
                     THEN /\ lastStream' =
                               [IdleStream EXCEPT
                                  !.pc = "ended", !.prompt = q, !.key = key,
                                  !.cached = got.value,
                                  !.events = replay(got.value) \o <<DoneEvent>>]
                          /\ UNCHANGED streams
                     ELSE /\ streams' = [streams EXCEPT ![i] =
                               [IdleStream EXCEPT
                                  !.pc = "creating", !.prompt = q, !.key = key,
                                  !.llm = TRUE,
                                  !.timer = "armed"]]
                          /\ UNCHANGED lastStream
  /\ UNCHANGED <<now, chatVars, fnVars, leadVars>>

\* openai.chat.completions.create resolves with the stream
StreamCreated(i) ==
  /\ streams[i].pc = "creating"
  /\ streams[i].timer = "armed"
  /\ streams' = [streams EXCEPT ![i].pc = "streaming"]
  /\ UNCHANGED <<cache, now, lastStream, nstreams, chatVars, fnVars, leadVars>>

\* the stream yields a chunk with the non-empty content d
StreamChunk(i, d) ==
  /\ streams[i].pc = "streaming"
  /\ streams[i].timer = "armed"
  /\ Len(streams[i].events) < MaxChunks
  /\ streams' = [streams EXCEPT
                   ![i].fullText = @ \o d,
                   ![i].events = Append(@, [type |-> "delta", data |-> d])]
  /\ UNCHANGED <<cache, now, lastStream, nstreams, chatVars, fnVars, leadVars>>

\* the timer fires: ac.abort("TIMEOUT")
StreamTimeout(i) ==
  /\ streams[i].pc \in {"creating", "streaming"}
  /\ streams[i].timer = "armed"
  /\ streams' = [streams EXCEPT ![i].timer = "fired"]
  /\ UNCHANGED <<cache, now, lastStream, nstreams, chatVars, fnVars, leadVars>>

\* the for await loop ends without throwing: the stream is exhausted, or it
\* was aborted and its iterator returned instead of throwing (what an aborted
\* stream does is the client library's choice, the handler does not test
\* ac.signal).  The timer is cleared, a text that is not blank is cached, done
\* is written and the response ended
StreamEnd(i) ==
  /\ streams[i].pc = "streaming"
  /\ lastStream' = [streams[i] EXCEPT
                      !.pc = "ended",
                      !.timer = IF @ = "armed" THEN "cleared" ELSE @,
                      !.events = Append(@, DoneEvent)]
  /\ streams' = [streams EXCEPT ![i] = IdleStream]
  /\ cache' = IF NotBlank(streams[i].fullText)
                THEN [cacheSet(streams[i].key, streams[i].fullText, cacheTtl)
                        EXCEPT ![streams[i].key].by = streams[i].prompt]
                ELSE cache
  /\ UNCHANGED <<now, nstreams, chatVars, fnVars, leadVars>>

\* a throw that comes after done was written: the catch adds an error event
StreamThrowAfterDone(i) ==
  /\ streams[i].pc \in {"creating", "streaming"}
  /\ lastStream' = [streams[i] EXCEPT
                      !.pc = "ended",
                      !.events = Append(Append(@, DoneEvent), ErrorEvent)]
  /\ streams' = [streams EXCEPT ![i] = IdleStream]
  /\ UNCHANGED <<cache, now, nstreams, chatVars, fnVars, leadVars>>

\* the model call or the iteration throws (an API or network error, or the
\* abort): the catch writes an error event and ends the response
StreamThrow(i) ==
  /\ streams[i].pc \in {"creating", "streaming"}
  /\ lastStream' = [streams[i] EXCEPT !.pc = "ended",
                                      !.events = Append(@, ErrorEvent)]
  /\ streams' = [streams EXCEPT ![i] = IdleStream]
  /\ UNCHANGED <<cache, now, nstreams, chatVars, fnVars, leadVars>>

\* time passes
Tick ==
  /\ now < MaxClock
  /\ now' = now + 1
  /\ UNCHANGED <<cache, streams, lastStream, nstreams, chatVars, fnVars,
                 leadVars>>

\* concurrent requests; the model streams chunks of one word
NextStream ==
  \/ \E i \in 1..MaxStreams, q \in StreamPrompts \cup {Absent} : StreamBegin(i, q)
  \/ \E i \in 1..MaxStreams : StreamCreated(i)
  \/ \E i \in 1..MaxStreams : StreamChunk(i, <<"o", "k">>)
  \/ \E i \in 1..MaxStreams : StreamTimeout(i)
  \/ \E i \in 1..MaxStreams : StreamEnd(i)
  \/ \E i \in 1..MaxStreams : StreamThrow(i)
  \/ Tick

SpecStream == InitIdle /\ [][NextStream]_vars

\* the chunks of the replies whose length matters: a word, a blank, and a
\* long one, so that texts of 399, 400 and 401 characters occur
LongChunks == {<<"o", "k">>, <<" ">>, [n \in 1..399 |-> "a"]}

\* one request at a time, within the time to live of what is cached; the
\* model streams texts of every length (the long chunk comes first)
NextReplay ==
  \/ \E q \in StreamPrompts \cup {Absent} : StreamBegin(1, q)
  \/ StreamCreated(1)
  \/ \E d \in LongChunks :
       /\ Len(d) > 2 => streams[1].fullText = NoText
       /\ StreamChunk(1, d)
  \/ StreamEnd(1)
  \/ StreamThrow(1)

SpecReplay == InitIdle /\ [][NextReplay]_vars

\* one request at a time, within the time to live of what is cached, with
\* prompts that differ in letter case and in white space only
NextKey ==
  \/ \E q \in KeyPrompts \cup {Absent} : StreamBegin(1, q)
  \/ StreamCreated(1)
  \/ StreamChunk(1, <<"o", "k">>)
  \/ StreamEnd(1)
  \/ StreamThrow(1)

SpecKey == InitIdle /\ [][NextKey]_vars

\* ------------------------------------------------- one client, no OpenAI key

mSmokeCity == <<"fumee", "noire", "en", "ville">>
mDegraded == <<"mode", "degrade">>
mStall == <<"ca", "cale", "et", "ne", "demarre", "plus">>
mPlateCp2 == <<"BB-456-BB", "69002">>

\* first messages that name the filter light, a power loss and short trips
LightPowerTripTexts ==
  { l \o p \o d :
      l \in {<<"voyant", "FAP", "allume,">>, <<"filtre", "a", "particules,">>},
      p \in {<<"perte", "de", "puissance,">>, <<"mode", "degrade,">>},
      d \in {<<"trajets", "courts", "en", "ville">>, <<"petits", "trajets">>} }

ScenarioMessages ==
  {[type |-> "string", text |-> m] :
     m \in {mVehicle, mSmokeCity, mDegraded, mStall, mPlateCp, mPlateCp2,
            mCanYes} \cup LightPowerTripTexts}

\* a turn of the client, which sends the same sessionId with every message
ScenarioTurn(m) == nturns < MaxTurns + 1 /\ TurnSync("s1", m)

InitScenario == InitIdle
NextScenario == \E m \in ScenarioMessages : ScenarioTurn(m)
SpecScenario == InitScenario /\ [][NextScenario]_vars

\* --------------------------------------------- inputs of the pure functions

PowerPhrases ==
  { <<"perte", "de", "puissance">>, <<"plus", "de", "puissance">>,
    <<"pas", "de", "puissance">>, <<"mode", "degrade">> }
FilterPhrases ==
  { <<"fap">>, <<"dpf">>, <<"risque", "colmatage">>,
    <<"filtre", "a", "particules">> }
ShortPhrases ==
  { <<"petits", "trajets">>, <<"ville">>, <<"trajets", "courts">>,
    <<"moteur", "froid">> }
SmokePhrases == { <<"fumee">> }
AdbluePhrases == { <<"adblue">> }
HighwayPhrases == { <<"longs", "trajets">>, <<"autoroute", "reguliere">> }

\* the indicator phrases the input texts are built from
InputPhrases ==
  { <<"fap">>, <<"ville">>, <<"fumee">>, <<"adblue">>,
    <<"perte", "de", "puissance">>, <<"plus", "de", "puissance">>,
    <<"mode", "degrade">>, <<"longs", "trajets">> }

\* the indicator phrases that can be added to a scored text
AddPhrases ==
  InputPhrases \cup { <<"pas", "de", "puissance">>, <<"petits", "trajets">>,
                      <<"autoroute", "reguliere">> }

PositivePhrases == AddPhrases \ HighwayPhrases

\* text + " " + phrase
AppendPhrase(v, p) == IF Truthy(v) THEN JoinSp(v, p) ELSE p

RECURSIVE PhraseTexts(_)
PhraseTexts(n) ==
  IF n = 0 THEN {Absent}
  ELSE LET shorter == PhraseTexts(n - 1)
       IN  shorter \cup {AppendPhrase(t, p) : t \in shorter, p \in InputPhrases}

LightsInputs == {Absent, <<"voyant", "FAP">>}
DrivingInputs ==
  {Absent, <<"petits", "trajets">>, <<"longs", "trajets">>,
   <<"autoroute", "reguliere">>}
SymptomInputs ==
  PhraseTexts(MaxPhrases) \cup {fragFap, fragPower, StrCat(fragFap, fragPower)}

FnInitCommon ==
  /\ ChatIdle
  /\ LeadIdle
  /\ StreamIdle
  /\ fnPc = "input"
  /\ fnText = Absent
  /\ fnScore = 0
  /\ fnPrevScore = 0
  /\ fnAdded = <<>>
  /\ fnRes = NoRes
  /\ fnStage = ""
  /\ fnNext = ""

\* slot maps for fapScore: only the scored slots vary
InitScore ==
  /\ FnInitCommon
  /\ \E l \in LightsInputs, s \in SymptomInputs, d \in DrivingInputs :
       fnSlots = [NoSlots EXCEPT !["lights"] = l, !["symptoms"] = s,
                                 !["driving"] = d]

\* slot maps for decideRouting
InitRoute ==
  /\ FnInitCommon
  /\ \E l \in LightsInputs, s \in SymptomInputs, d \in DrivingInputs,
        sev \in {Absent, <<"oui">>},
        cr \in {Absent, <<"oui">>, <<"non">>, <<"Oui">>},
        pc \in {Absent, <<"75001">>},
        pl \in {Absent, <<"AA-123-AA">>} :
       fnSlots = [NoSlots EXCEPT !["lights"] = l, !["symptoms"] = s,
                                 !["driving"] = d, !["severe"] = sev,
                                 !["canRemove"] = cr, !["postcode"] = pc,
                                 !["plate"] = pl]

\* fapScore(slots)
FnScore ==
  /\ fnPc = "input"
  /\ fnPc' = "scored"
  /\ fnScore' = fapScore(fnSlots)
  /\ UNCHANGED <<fnText, fnSlots, fnPrevScore, fnAdded, fnRes, fnStage, fnNext>>
  /\ UNCHANGED <<chatVars, leadVars, streamVars>>

\* an indicator phrase is added to one scored slot and the map is scored again
FnAdd(k, p) ==
  /\ fnPc = "scored"
  /\ fnPc' = "added"
  /\ fnSlots' = [fnSlots EXCEPT ![k] = AppendPhrase(fnSlots[k], p)]
  /\ fnPrevScore' = fnScore
  /\ fnAdded' = p
  /\ fnScore' = fapScore(fnSlots')
  /\ UNCHANGED <<fnText, fnRes, fnStage, fnNext>>
  /\ UNCHANGED <<chatVars, leadVars, streamVars>>

\* decideRouting(slots)
FnDecide ==
  /\ fnPc = "input"
  /\ fnPc' = "routed"
  /\ fnRes' = decideRouting(fnSlots)
  /\ UNCHANGED <<fnText, fnSlots, fnScore, fnPrevScore, fnAdded, fnStage,
                 fnNext>>
  /\ UNCHANGED <<chatVars, leadVars, streamVars>>

\* decideRouting(slots) called a second time on the same slot object
FnDecideAgain ==
  /\ fnPc = "routed"
  /\ fnPc' = "rerouted"
  /\ fnRes' = decideRouting(fnSlots)
  /\ UNCHANGED <<fnText, fnSlots, fnScore, fnPrevScore, fnAdded, fnStage,
                 fnNext>>
  /\ UNCHANGED <<chatVars, leadVars, streamVars>>

\* slot maps for the stage and the next question: every slot of SLOT_ORDER
\* is absent or holds a value
InitAsk ==
  /\ FnInitCommon
  /\ \E present \in SUBSET (SlotNames \ {"symptoms", "severe"}),
        s \in {Absent, fragFap, fragPower, StrCat(fragFap, fragPower)} :
       fnSlots =
         [k \in SlotNames |->
            CASE k = "symptoms" -> s
              [] k = "severe" -> IF reMentionsPower(s) THEN <<"oui">> ELSE Absent
              [] k \notin present -> Absent
              [] k = "vehicle" -> mVehicle
              [] k = "driving" -> <<"petits", "trajets">>
              [] k = "lights" -> <<"voyant", "FAP">>
              [] k = "postcode" -> <<"75001">>
              [] k = "plate" -> <<"AA-123-AA">>
              [] OTHER -> <<"oui">>]

\* lines 590-591 and 623-626: stage, routing and next question of a slot map
FnAsk ==
  /\ fnPc = "input"
  /\ fnPc' = "asked"
  /\ fnStage' = IF readyForOffer(fnSlots) THEN "offer" ELSE "diag"
  /\ fnRes' = decideRouting(fnSlots)
  /\ fnNext' = nextQuestion(fnStage', fnRes', fnSlots)
  /\ UNCHANGED <<fnText, fnSlots, fnScore, fnPrevScore, fnAdded>>
  /\ UNCHANGED <<chatVars, leadVars, streamVars>>

SpecAsk == InitAsk /\ [][FnAsk]_vars

\* texts for softExtractSlots: numbers and plates, well formed or not
ExtractWords ==
  { "75001", "69002", "7500", "750011", "75001,", "A75001", "AA-123-AA",
    "aa-123-aa", "BB-456-BB", "Ab-123-cD", "AAA-123-A", "AA-12345-AA" }
ExtractTexts == UNION {[1..n -> ExtractWords] : n \in 1..MaxTokens}

InitExtract ==
  /\ ChatIdle
  /\ LeadIdle
  /\ StreamIdle
  /\ fnPc = "input"
  /\ fnText \in ExtractTexts
  /\ fnSlots = NoSlots
  /\ fnScore = 0
  /\ fnPrevScore = 0
  /\ fnAdded = <<>>
  /\ fnRes = NoRes
  /\ fnStage = ""
  /\ fnNext = ""

\* softExtractSlots(text)
FnExtract ==
  /\ fnPc = "input"
  /\ fnPc' = "extracted"
  /\ fnSlots' = softExtractSlots(fnText)
  /\ UNCHANGED <<fnText, fnScore, fnPrevScore, fnAdded, fnRes, fnStage, fnNext>>
  /\ UNCHANGED <<chatVars, leadVars, streamVars>>

SpecExtract == InitExtract /\ [][FnExtract]_vars

NextScore ==
  \/ FnScore
  \/ \E k \in {"lights", "symptoms", "driving"}, p \in AddPhrases : FnAdd(k, p)

NextRoute == FnDecide \/ FnDecideAgain

SpecScore == InitScore /\ [][NextScore]_vars
SpecRoute == InitRoute /\ [][NextRoute]_vars

\* ------------------------------------------------- reference vocabulary

\* the phrase p occurs in the text t, word for word
HasPhrase(t, p) ==
  \E i \in 1..(Len(t) - Len(p) + 1) : SubSeq(t, i, i + Len(p) - 1) = p

MentionsAny(t, phrases) == \E p \in phrases : HasPhrase(toLowerCase(t), p)

\* the text of the three scored slots, one after the other
AllScoredText(slots) ==
  OrEmpty(slots["lights"]) \o OrEmpty(slots["symptoms"]) \o OrEmpty(slots["driving"])

\* the ways a text states a power loss or the degraded mode: the four
\* indicators, and the note softExtractSlots writes for them
PowerMentions == PowerPhrases \cup {<<"perte", "puissance/mode", "degrade">>}

\* the symptoms text mentions a power loss or the degraded mode
SymptomsMentionPower(slots) ==
  MentionsAny(OrEmpty(slots["symptoms"]), PowerMentions)

SevereSituation(slots) ==
  slots["severe"] = <<"oui">> \/ SymptomsMentionPower(slots)

CanRemoveIsYes(slots) == toLowerCase(OrEmpty(slots["canRemove"])) = <<"oui">>

PrimaryIds == {"cta_diag", "cta_carter", "cta_generic"}

Routed == fnPc = "routed"
Scored == fnPc \in {"scored", "added"}

\* ----------------------------------------------------------------- claims

\* C1: when the situation is severe and the score is at least 40, the route
\* is partner_garage with cta_diag first and the informational CTA after it,
\* whatever canRemove and however high the score.
C1_SevereRowWins ==
  (Routed /\ SevereSituation(fnSlots) /\ fnRes.score >= 40) =>
    /\ fnRes.route = "partner_garage"
    /\ fnRes.ctas[1].id = "cta_diag"
    /\ \E i \in 2..Len(fnRes.ctas) : fnRes.ctas[i].id = "cta_refap"

C1_Witness ==
  /\ Routed
  /\ SevereSituation(fnSlots)
  /\ CanRemoveIsYes(fnSlots)
  /\ fnRes.score >= 60
  /\ fnRes.route = "partner_garage"

\* C2: outside the severe row the route follows the score tier and canRemove:
\* >= 60 with canRemove yes is self_remove_cc (cta_carter), >= 60 otherwise is
\* partner_garage (cta_diag), 40..59 is likely_but_uncertain (cta_diag), below
\* 40 is generic (cta_generic), also when the situation is severe.
C2_ScoreTierRows ==
  (Routed /\ ~(SevereSituation(fnSlots) /\ fnRes.score >= 40)) =>
    /\ (fnRes.score >= 60 /\ CanRemoveIsYes(fnSlots)) =>
         (fnRes.route = "self_remove_cc" /\ fnRes.ctas[1].id = "cta_carter")
    /\ (fnRes.score >= 60 /\ ~CanRemoveIsYes(fnSlots)) =>
         (fnRes.route = "partner_garage" /\ fnRes.ctas[1].id = "cta_diag")
    /\ (fnRes.score >= 40 /\ fnRes.score < 60) =>
         (fnRes.route = "likely_but_uncertain" /\ fnRes.ctas[1].id = "cta_diag")
    /\ (fnRes.score < 40) =>
         (fnRes.route = "generic" /\ fnRes.ctas[1].id = "cta_generic")

C2_Witness ==
  /\ Routed
  /\ ~SevereSituation(fnSlots)
  /\ fnRes.score = 60
  /\ fnRes.route = "self_remove_cc"
  /\ fnRes.ctas[1].id = "cta_carter"

\* C3: needs is empty unless the route is partner_garage, and then it lists
\* exactly the absent ones of postcode and plate, postcode first.
C3_NeedsOnlyForPartnerGarage ==
  Routed =>
    /\ fnRes.route # "partner_garage" => fnRes.needs = <<>>
    /\ fnRes.route = "partner_garage" =>
         fnRes.needs =
           (IF fnSlots["postcode"] = Absent THEN <<"postcode">> ELSE <<>>)
           \o (IF fnSlots["plate"] = Absent THEN <<"plate">> ELSE <<>>)

C3_Witness ==
  /\ Routed
  /\ fnRes.route = "partner_garage"
  /\ ~SevereSituation(fnSlots)
  /\ fnRes.needs = <<"postcode", "plate">>

\* C4: the emitted CTA list has at most 3 entries and exactly one primary
\* (route-specific) CTA, at position 0.
C4_OnePrimaryFirst ==
  Routed =>
    LET out == payloadCtas(fnRes)
    IN  /\ Len(out) <= 3
        /\ Len(out) >= 1
        /\ out[1].id \in PrimaryIds
        /\ \A i \in 2..Len(out) : out[i].id \notin PrimaryIds

C4_Witness ==
  /\ Routed
  /\ fnRes.route = "likely_but_uncertain"
  /\ Len(payloadCtas(fnRes)) = 3
  /\ payloadCtas(fnRes)[1].id = "cta_diag"

\* C5: in every row the emitted list holds cta_refap and cta_rappel after the
\* primary CTA, and the cap of 3 removes nothing.
C5_InfoAndCallbackKept ==
  Routed =>
    LET out == payloadCtas(fnRes)
    IN  /\ \E i \in 2..Len(out) : out[i].id = "cta_refap"
        /\ \E i \in 2..Len(out) : out[i].id = "cta_rappel"
        /\ out = fnRes.ctas

C5_Witness ==
  /\ Routed
  /\ SevereSituation(fnSlots)
  /\ fnRes.score >= 40
  /\ payloadCtas(fnRes) = <<ctaDiag, ctaRefap, ctaRappel>>

\* the weighted sum as the specification states it
ReferenceScore(slots) ==
  LET t == AllScoredText(slots)
      power == MentionsAny(t, PowerMentions)
      raw == (IF MentionsAny(t, FilterPhrases) THEN 30 ELSE 0)
           + (IF MentionsAny(t, ShortPhrases) THEN 20 ELSE 0)
           + (IF power \/ MentionsAny(t, SmokePhrases) THEN 30 ELSE 0)
           + (IF MentionsAny(t, AdbluePhrases) THEN 15 ELSE 0)
           - (IF MentionsAny(t, HighwayPhrases) /\ ~power THEN 20 ELSE 0)
  IN  IF raw < 0 THEN 0 ELSE IF raw > 100 THEN 100 ELSE raw

\* C6: fapScore equals the reference weighted sum, with the highway penalty
\* applied exactly when highway driving is mentioned and none of the four
\* power-loss indicators is present.
C6_ScoreIsReferenceSum ==
  Scored => fnScore = ReferenceScore(fnSlots)

\* C7: fapScore returns an integer between 0 and 100.
C7_ScoreInRange ==
  Scored => (fnScore \in Int /\ 0 <= fnScore /\ fnScore <= 100)

C7_Witness ==
  /\ fnPc = "scored"
  /\ rawScore(fnSlots) = -20
  /\ fnScore = 0

NonBlank(v) == v # Absent /\ v # [i \in 1..Len(v) |-> ""]

RequiredSlotsFilled(slots) ==
  NonBlank(slots["vehicle"]) /\ NonBlank(slots["driving"])
    /\ NonBlank(slots["symptoms"])

\* the stage of a turn agrees with the slot map it was computed from, and
\* that slot map holds every slot this turn's message filled
StageMatchesSlots(stage, seen, ext) ==
  /\ stage \in {"diag", "offer"}
  /\ stage = "offer" <=> RequiredSlotsFilled(seen)
  /\ \A k \in SlotNames : ext[k] # Absent => seen[k] # Absent

UserTexts(sess) ==
  [i \in 1..(Len(sess.history) \div 2) |-> sess.history[2 * i - 1].content]

\* the last response answers a turn of session sid whose messages so far are
\* texts
AnsweredAfter(sid, texts) ==
  /\ last.kind = "ok"
  /\ last.sid = sid
  /\ UserTexts(sessions[sid]) = texts

\* C11: a fresh session that receives the vehicle description, then the smoke
\* symptom with urban driving, then the degraded mode, holds vehicle, driving
\* and symptoms after the third turn, and that turn reports the offer stage.
C11_ScenarioCReachesOffer ==
  \A sid \in SessionIds :
    AnsweredAfter(sid, <<mVehicle, mSmokeCity, mDegraded>>) =>
      /\ RequiredSlotsFilled(sessions[sid].slots)
      /\ last.stage = "offer"

\* the last response answers the first turn of a session, with message m
FirstTurnWith(m) ==
  \E sid \in SessionIds : AnsweredAfter(sid, <<m>>)

\* C12: a first message that states a stall or a failure to start and yields
\* no slot is routed to the partner garage, whatever the score.
C12_StallRoutesToPartnerGarage ==
  \A m \in {x.text : x \in ScenarioMessages} :
    ( /\ FirstTurnWith(m)
      /\ extractSignals(m).nonDrivable
      /\ softExtractSlots(m) = NoSlots ) => last.route = "partner_garage"

PriorityOrder ==
  << "vehicle", "mileage", "driving", "lights", "symptoms", "codes", "adblue",
     "urgency", "canRemove", "postcode", "plate", "contactName", "phone" >>

\* slot k is the first slot of the priority order that the map does not hold
FirstAbsent(slots, k) ==
  \E i \in 1..Len(PriorityOrder) :
    /\ PriorityOrder[i] = k
    /\ slots[k] = Absent
    /\ \A j \in 1..(i - 1) : slots[PriorityOrder[j]] # Absent

Asked == fnPc = "asked"

\* C14: in the diag stage the next question is the first slot of the priority
\* order that is absent; in the offer stage it is the first routing-needed
\* slot when the route is partner_garage and needs one, and none otherwise.
C14_NextQuestion ==
  Asked =>
    /\ fnStage \in {"diag", "offer"}
    /\ fnStage = "diag" => FirstAbsent(fnSlots, fnNext)
    /\ fnStage = "offer" =>
         IF fnRes.route = "partner_garage" /\ fnRes.needs # <<>>
           THEN fnNext = fnRes.needs[1]
         ELSE fnNext = ""

C14_Witness ==
  /\ Asked
  /\ fnStage = "offer"
  /\ fnRes.route = "partner_garage"
  /\ fnSlots["postcode"] # Absent
  /\ fnSlots["mileage"] = Absent
  /\ fnNext = "plate"

\* C15: a non-cumulative slot (postcode, plate, canRemove, adblue) that is
\* present keeps its value through every later merge.
C15_NonCumulativeSlotsKept ==
  [][\A sid \in SessionIds :
       \A k \in {"postcode", "plate", "canRemove", "adblue"} :
         sessions[sid].slots[k] # Absent =>
           sessions'[sid].slots[k] = sessions[sid].slots[k]]_vars

\* the symptoms text v holds the fragment softExtractSlots writes with word w
HoldsFragment(v, w) == \E i \in 1..Len(v) : v[i] = w

\* C16: the symptoms slot keeps every fragment collected in earlier turns
\* when a later turn extracts a symptom.
C16_SymptomsAccumulate ==
  [][\A sid \in SessionIds : \A w \in {"FAP", "puissance/mode"} :
       HoldsFragment(sessions[sid].slots["symptoms"], w) =>
         HoldsFragment(sessions'[sid].slots["symptoms"], w)]_vars

\* C17: a slot that holds a non-empty value holds one after every later step,
\* no slot is ever set to the empty string, and a session stays in the Map.
C17_SlotsNeverCleared ==
  [][\A sid \in SessionIds :
       /\ sessions[sid].exists => sessions'[sid].exists
       /\ \A k \in SlotNames :
            /\ Truthy(sessions[sid].slots[k]) => Truthy(sessions'[sid].slots[k])
            /\ sessions'[sid].slots[k] # EmptyStr]_vars

C17_Witness ==
  \E sid \in SessionIds :
    /\ last.kind = "ok"
    /\ last.sid = sid
    /\ Len(UserTexts(sessions[sid])) = 2
    /\ last.ext["symptoms"] # Absent
    /\ last.ext["plate"] = Absent
    /\ sessions[sid].slots["plate"] = <<"AA-123-AA">>

\* a response has just been sent to a request without a valid message
AnswersBadBody == last' # last /\ last'.badBody

\* C19 as stated: every request without a valid message, whatever its query
\* parameters, is answered 400 and leaves the session map unchanged.
C19_BadBodyAlways400 ==
  [][AnswersBadBody => last'.status = 400 /\ sessions' = sessions]_vars

\* C19 amended: a request without a valid message leaves the session map
\* unchanged, and is answered 400 unless it carries mock=1, which is answered
\* by the canned reply with status 200.
C19_BadBody400UnlessMock ==
  [][AnswersBadBody =>
       /\ sessions' = sessions
       /\ IF last'.kind = "mock" THEN last'.status = 200
          ELSE last'.kind = "bad" /\ last'.status = 400]_vars

C19_Witness ==
  /\ last.badBody
  /\ last.kind = "bad"
  /\ last.status = 400
  /\ \E sid \in SessionIds : sessions[sid].slots["symptoms"] # Absent

\* C20: a turn that reached the model call is answered with a normal reply
\* carrying the stage and the CTAs computed from the session's slots, however
\* the call ends.
C20_LlmFailureStillReplies ==
  [][\A i \in 1..MaxInFlight :
       (reqs[i].pc = "llm" /\ reqs'[i].pc = "idle") =>
         /\ last'.kind = "ok"
         /\ last'.status = 200
         /\ last'.stage = reqs[i].stage
         /\ last'.ctas = payloadCtas(reqs[i].routing)]_vars

UpperSeq(cs) == [i \in 1..Len(cs) |-> UpperChar(cs[i])]

\* the pieces of the tokens of text that stand alone (no letter or digit
\* beside them), upper-cased
AlonePieces(text) ==
  UNION { LET tok == Spell(text[i])
          IN  { UpperSeq(SubSeq(tok, a, b)) :
                  a \in {x \in 1..Len(tok) : x = 1 \/ ~WordChar(tok[x - 1])},
                  b \in {y \in 1..Len(tok) :
                          y = Len(tok) \/ ~WordChar(tok[y + 1])} }
          : i \in 1..Len(text) }

\* exactly five digits
ShapePostcode(cs) == Len(cs) = 5 /\ \A i \in 1..5 : Digit(cs[i])

\* two capital letters, dash, three digits, dash, two capital letters
ShapePlate(cs) ==
  /\ Len(cs) = 9
  /\ \A i \in {1, 2, 8, 9} : cs[i] \in {"A", "B", "C", "D"}
  /\ \A i \in {4, 5, 6} : Digit(cs[i])
  /\ cs[3] = "-" /\ cs[7] = "-"

Extracted == fnPc = "extracted"

\* C18: softExtractSlots returns a postcode only if it stands alone in the
\* text as exactly five digits, a plate only if it stands alone with the plate
\* shape (returned upper-cased); a text with no such piece leaves the slot
\* absent, and a text with one fills it.
C18_PostcodeAndPlateShape ==
  Extracted =>
    LET pieces == AlonePieces(fnText)
        pc == fnSlots["postcode"]
        pl == fnSlots["plate"]
    IN  /\ (pc = Absent) = ({cs \in pieces : ShapePostcode(cs)} = {})
        /\ pc # Absent =>
             Len(pc) = 1 /\ ShapePostcode(Spell(pc[1])) /\ Spell(pc[1]) \in pieces
        /\ (pl = Absent) = ({cs \in pieces : ShapePlate(cs)} = {})
        /\ pl # Absent =>
             Len(pl) = 1 /\ ShapePlate(Spell(pl[1])) /\ Spell(pl[1]) \in pieces

C18_Witness ==
  /\ Extracted
  /\ fnText = <<"AA-123-AA", "75001">>
  /\ fnSlots["plate"] = <<"AA-123-AA">>
  /\ fnSlots["postcode"] = <<"75001">>

\* C21: while a turn is between its slot merge and its routing computation,
\* the slot map of its session is not changed (by a turn of the same session
\* or by any other), so the stage and routing it computes rest on its own
\* merge.
C21_NoMergeBeforeRouting ==
  [][\A i \in 1..MaxInFlight :
       reqs[i].pc = "rag" =>
         sessions'[reqs[i].sid].slots = sessions[reqs[i].sid].slots]_vars

\* the slot map that merging the messages texts, in order, into an empty slot
\* map gives
RECURSIVE MergeAll(_)
MergeAll(texts) ==
  IF texts = <<>> THEN NoSlots
  ELSE objectAssign(MergeAll(SubSeq(texts, 1, Len(texts) - 1)),
                    softExtractSlots(texts[Len(texts)]))

\* the step is part of a turn for session A: the turn is received, or
\* answered, or both at once
TurnStepOf(A) ==
  \/ nturns' # nturns /\ reqs' = reqs /\ last'.sid = A
  \/ \E i \in 1..MaxInFlight :
       \/ reqs[i].pc = "idle" /\ reqs'[i].pc = "rag" /\ reqs'[i].sid = A
       \/ reqs[i].pc = "llm" /\ reqs'[i].pc = "idle" /\ reqs[i].sid = A

\* the slots of every session, and the stage, next question and CTAs of the
\* last reply, are those computed from the session's own messages alone
OwnMessagesDecide ==
  /\ \A A \in SessionIds : sessions[A].slots = MergeAll(sessions[A].arrived)
  /\ last.kind = "ok" =>
       LET arr == sessions[last.sid].arrived
       IN  \E n \in 1..Len(arr) : \E k \in n..Len(arr) :
             LET seen == MergeAll(SubSeq(arr, 1, n))
                 routing == decideRouting(seen)
                 stage == IF RequiredSlotsFilled(seen) THEN "offer" ELSE "diag"
             IN  /\ last.stage = stage
                 /\ last.ctas = payloadCtas(routing)
                 /\ last.next =
                      nextQuestion(stage, routing, MergeAll(SubSeq(arr, 1, k)))

\* C22: a step that is not part of a turn for session A leaves A's slots,
\* stage and history unchanged, whatever the other sessions do, and what a turn
\* for A returns (stage, next question, CTAs) is computed from the messages of
\* A alone.
C22_SessionsIsolated ==
  /\ [][\A A \in SessionIds : TurnStepOf(A) \/ sessions'[A] = sessions[A]]_vars
  /\ []OwnMessagesDecide

C22_Witness ==
  /\ sessions["s1"].exists /\ sessions["s2"].exists
  /\ sessions["s1"].slots # sessions["s2"].slots
  /\ sessions["s1"].slots["symptoms"] # Absent
  /\ last.kind = "ok" /\ last.sid = "s2"

\* the turn for message m whose body held the session id sidIn (NoSid: none)
\* is stored under sid: sid is the body's id, or one the Map did not hold, and
\* the session under sid is the one it was, with its history kept and m merged
StoredUnder(sidIn, sid, m) ==
  /\ IF sidIn = NoSid THEN ~sessions[sid].exists ELSE sid = sidIn
  /\ sessions'[sid].exists
  /\ sessions'[sid].arrived = Append(sessions[sid].arrived, m.text)
  /\ Len(sessions'[sid].history) >= Len(sessions[sid].history)
  /\ SubSeq(sessions'[sid].history, 1, Len(sessions[sid].history)) =
       sessions[sid].history

\* C23 as stated: the sessionId of every response to a request with a valid
\* message is an id under which a session is stored.
C23_ResponseIdIsStored ==
  (last.kind \in {"ok", "mock"} /\ ~last.badBody) =>
    last.sid \in SessionIds /\ sessions[last.sid].exists

\* C23 amended: a valid turn without mock=1 is stored under the body's
\* sessionId, or under a fresh one when the body has none, and is answered
\* with that id; a mock=1 request is answered with the body's id or a made-up
\* one and stores nothing.
C23_ResponseIdIsStoredUnlessMock ==
  [][/\ nturns' # nturns =>
          \A sidIn \in SessionIds \cup {NoSid}, m \in GoodMessages :
          /\ TurnSync(sidIn, m) =>
               last'.kind = "ok" /\ StoredUnder(sidIn, last'.sid, m)
          /\ \A i \in 1..MaxInFlight :
               ChatTurnBegin(i, sidIn, m) => StoredUnder(sidIn, reqs'[i].sid, m)
     /\ \A i \in 1..MaxInFlight :
          (reqs[i].pc = "llm" /\ reqs'[i].pc = "idle" /\ last'.kind = "ok") =>
            /\ last'.sid = reqs[i].sid
            /\ sessions'[last'.sid].exists
            /\ reqs[i].msg \in
                 {sessions'[last'.sid].arrived[n] :
                    n \in 1..Len(sessions'[last'.sid].arrived)}
     /\ last'.kind = "mock" /\ last' # last => sessions' = sessions]_vars

C23_Witness ==
  /\ last.kind = "ok"
  /\ sessions[last.sid].exists
  /\ Len(sessions[last.sid].arrived) = 2
  /\ Len(sessions[last.sid].history) = 4

\* C24: a handler waiting on the retrieval never ends its turn there; when the
\* retrieval fails the handler goes on to the model call with no source, the
\* session map unchanged and the stage and routing computed from the session's
\* slots as after a retrieval that answered; when the model then answers, the
\* reply is a normal one (200) with that stage, its next question and its CTAs.
C24_RetrievalFailureIsCaught ==
  [][\A i \in 1..MaxInFlight :
       /\ reqs[i].pc = "rag" => reqs'[i].pc \in {"rag", "llm"}
       /\ (reqs[i].pc = "rag" /\ reqs'[i].ragError) =>
            LET slots == sessions[reqs[i].sid].slots
            IN  /\ sessions' = sessions
                /\ reqs'[i].sources = 0
                /\ reqs'[i].routing = decideRouting(slots)
                /\ reqs'[i].stage =
                     (IF RequiredSlotsFilled(slots) THEN "offer" ELSE "diag")
       /\ (reqs[i].pc = "llm" /\ reqs[i].ragError /\ reqs'[i].pc = "idle"
             /\ last'.kind # "error") =>
            /\ last'.kind = "ok" /\ last'.status = 200
            /\ last'.sources = 0
            /\ last'.stage = reqs[i].stage
            /\ last'.ctas = payloadCtas(reqs[i].routing)
            /\ Len(last'.ctas) = 3
            /\ last'.next =
                 nextQuestion(reqs[i].stage, reqs[i].routing,
                              sessions[reqs[i].sid].slots)]_vars

C24_Witness ==
  /\ last.kind = "ok"
  /\ last.ragError
  /\ last.sources = 0
  /\ last.seen["symptoms"] # Absent
  /\ last.stage = "diag"
  /\ Len(last.ctas) = 3

\* C25: POST /api/lead with name and phone present answers ok: true (200),
\* whether the insert succeeded or failed; it answers a client error (400)
\* exactly when name or phone is missing or empty, and then has not called the
\* insert, so the table is as it was.
C25_LeadAlwaysOk ==
  [][LET r == leadRes'
     IN  IF Truthy(r.name) /\ Truthy(r.phone)
           THEN /\ r.status = 200 /\ r.ok /\ r.tried
                /\ leads' \in {leads} \cup {Append(leads, row) : row \in
                     [session_id : {Absent, <<"s1">>}, name : {r.name},
                      phone : {r.phone},
                      email : {Absent, <<"jean@example.fr">>}]}
                /\ r.leadId # 0 <=> leads' # leads
           ELSE r.status = 400 /\ ~r.ok /\ ~r.tried /\ leads' = leads]_vars

C25_Witness ==
  /\ leadRes.status = 200 /\ leadRes.ok
  /\ leadRes.tried /\ leadRes.leadId = 0
  /\ Len(leads) = 1

HasTarget(c) == c = NoCta \/ c.url # ""

\* C27: every CTA descriptor of a reply, in ctas and in cta, has a non-empty
\* target URL, the CTAs of the canned reply and what pickFallbackCTA returns
\* for the client's messages included: with no URL configured the generic CTA
\* carries the default URL and pickFallbackCTA returns no descriptor.
C27_CtasHaveTargets ==
  /\ \A i \in 1..Len(last.ctas) : last.ctas[i] # NoCta /\ last.ctas[i].url # ""
  /\ HasTarget(last.cta)
  /\ \A i \in 1..Len(mockCtas) : mockCtas[i].url # ""
  /\ \A m \in ScenarioMessages : HasTarget(pickFallbackCTA(m.text))

C27_Witness ==
  /\ last.kind = "ok"
  /\ last.route = "generic"
  /\ Len(last.ctas) = 3
  /\ last.cta.id = "cta_generic"
  /\ last.cta.url = IDGARAGES_URL
  /\ \E sid \in SessionIds : Len(sessions[sid].history) = 4

\* C28: a handler whose timeout fired while its model stream was in flight
\* ends with an error event as its last event and leaves the cache as it was.
C28_TimeoutDiscardsPartialText ==
  [][\A i \in 1..MaxStreams :
       (streams[i].timer = "fired" /\ streams'[i].pc = "idle") =>
         /\ lastStream'.events[Len(lastStream'.events)].type = "error"
         /\ cache' = cache]_vars

\* C29: an entry of the cache that has not expired is not replaced: neither
\* its text nor its expiry changes, whatever the handlers do.
C29_LiveEntryNeverReplaced ==
  [][\A k \in DOMAIN cache :
       (cache[k].has /\ now <= cache[k].exp) =>
         (cache'[k].value = cache[k].value /\ cache'[k].exp = cache[k].exp)]_vars

\* the data of the events of one type, in order
RECURSIVE DataOf(_, _)
DataOf(events, type) ==
  IF events = <<>> THEN <<>>
  ELSE (IF Head(events).type = type THEN <<Head(events).data>> ELSE <<>>)
         \o DataOf(Tail(events), type)

\* the texts of a sequence, glued
RECURSIVE Glue(_)
Glue(texts) == IF texts = <<>> THEN <<>> ELSE Head(texts) \o Glue(Tail(texts))

\* C30: a handler answered from the cache has made no model call; it wrote
\* the stored text as one delta event when its length is at most 400 and as
\* two delta events cut at half its length otherwise, the deltas glued are the
\* stored text, and one done event follows them and ends the events.
C30_HitReplaysStoredText ==
  lastStream.cached # NoText =>
    LET ev == lastStream.events
        deltas == DataOf(ev, "delta")
        text == cache[lastStream.key].value
    IN  /\ ~lastStream.llm
        /\ lastStream.cached = text
        /\ Len(deltas) = (IF Len(text) <= 400 THEN 1 ELSE 2)
        /\ Len(deltas) = 2 => Len(deltas[1]) = Len(text) \div 2
        /\ Glue(deltas) = text
        /\ Len(ev) = Len(deltas) + 1
        /\ ev[Len(ev)].type = "done"
        /\ lastStream.pc = "ended"

C30_Witness ==
  /\ lastStream.cached # NoText
  /\ Len(lastStream.cached) = 401
  /\ Len(lastStream.events) = 3
  /\ ~lastStream.llm

HistoryWindow == 4

\* C32: no session stores more history entries than the window handed to the
\* model.
C32_HistoryBounded ==
  \A sid \in DOMAIN sessions : Len(sessions[sid].history) <= HistoryWindow

\* ----------------------------------------------------- decideCTAs (signals)

\* the flags of the object extractSignals returns
SignalNames ==
  {"nonDrivable", "powerLoss", "fapLight", "engineLight", "regenFailed",
   "fapRemoved", "diy", "smokeBlack", "smokeBlue", "smokeWhite", "shortTrips",
   "adblue", "egr", "fapCodeHit"}

\* CTA_LIBRARY, with the urls of LINKS when the environment sets none
CTA_LIBRARY ==
  [idgarages |-> [id |-> "idgarages", url |-> IDGARAGES_URL],
   refap     |-> [id |-> "refap", url |-> RE_FAP_URL],
   carter    |-> [id |-> "carter", url |-> CARTER_URL],
   rappel    |-> [id |-> "rappel", url |-> "mailto:contact@re-fap.fr"]]

\* a decideCTAs that tests nonDrivable before fapRemoved and diy
decideCTAsDriveFirst(sig) ==
  IF sig.nonDrivable
    THEN [primary |-> CTA_LIBRARY.idgarages, secondary |-> CTA_LIBRARY.refap,
          reasons |-> 1]
  ELSE IF sig.fapRemoved \/ sig.diy
    THEN [primary |-> CTA_LIBRARY.carter, secondary |-> CTA_LIBRARY.refap,
          reasons |-> 1]
  ELSE IF \/ sig.fapLight \/ sig.fapCodeHit \/ sig.regenFailed
          \/ sig.adblue \/ sig.egr \/ sig.smokeBlack \/ sig.smokeBlue
          \/ sig.smokeWhite \/ sig.powerLoss
    THEN [primary |-> CTA_LIBRARY.idgarages, secondary |-> CTA_LIBRARY.refap,
          reasons |-> 1]
  ELSE [primary |-> CTA_LIBRARY.idgarages, secondary |-> CTA_LIBRARY.rappel,
        reasons |-> 1]

\* decideCTAs(sig): the first branch whose test holds returns; reasons is the
\* number of reasons pushed
decideCTAs(sig) ==
  IF sig.fapRemoved \/ sig.diy
    THEN [primary |-> CTA_LIBRARY.carter, secondary |-> CTA_LIBRARY.refap,
          reasons |-> 1]
  ELSE IF sig.nonDrivable
    THEN [primary |-> CTA_LIBRARY.idgarages, secondary |-> CTA_LIBRARY.refap,
          reasons |-> 1]
  ELSE IF sig.fapLight \/ sig.fapCodeHit \/ sig.regenFailed
    THEN [primary |-> CTA_LIBRARY.idgarages, secondary |-> CTA_LIBRARY.refap,
          reasons |-> 1]
  ELSE IF \/ sig.adblue \/ sig.egr \/ sig.smokeBlack \/ sig.smokeBlue
          \/ sig.smokeWhite \/ sig.powerLoss
    THEN [primary |-> CTA_LIBRARY.idgarages, secondary |-> CTA_LIBRARY.refap,
          reasons |-> 1]
  ELSE [primary |-> CTA_LIBRARY.idgarages, secondary |-> CTA_LIBRARY.rappel,
        reasons |-> 1]

\* every signal object: fnSlots holds the object handed to decideCTAs
InitCta ==
  /\ FnInitCommon
  /\ fnSlots \in [SignalNames -> BOOLEAN]

\* decideCTAs(sig)
FnDecideCTAs ==
  /\ fnPc = "input"
  /\ fnPc' = "ctas"
  /\ fnRes' = decideCTAs(fnSlots)
  /\ UNCHANGED <<fnText, fnSlots, fnScore, fnPrevScore, fnAdded, fnStage,
                 fnNext>>
  /\ UNCHANGED <<chatVars, leadVars, streamVars>>

SpecCta == InitCta /\ [][FnDecideCTAs]_vars

\* the primary of the answer: carter when the filter is removed or the user
\* does it alone, idgarages otherwise; the secondary is another CTA
CtaPrimaryRule ==
  /\ fnRes.primary =
       (IF fnSlots["fapRemoved"] \/ fnSlots["diy"]
          THEN CTA_LIBRARY.carter ELSE CTA_LIBRARY.idgarages)
  /\ fnRes.secondary.id # fnRes.primary.id
  /\ fnRes.secondary \in {CTA_LIBRARY.refap, CTA_LIBRARY.rappel}

\* the signals that decideCTAs does not read
UntestedSignals == {"engineLight", "shortTrips"}

\* C33: one primary and one secondary, different; carter first for
\* fapRemoved or diy, idgarages otherwise; the secondary is rappel when no
\* signal is set and refap when one is.
C33_CtaPairByFirstMatch ==
  fnPc = "ctas" =>
    /\ CtaPrimaryRule
    /\ fnRes.secondary =
         (IF \A n \in SignalNames : ~fnSlots[n]
            THEN CTA_LIBRARY.rappel ELSE CTA_LIBRARY.refap)

\* C33 amended: the same, the secondary being rappel when no signal other
\* than engineLight and shortTrips is set and refap otherwise.
C33_CtaPairByFirstMatchTested ==
  fnPc = "ctas" =>
    /\ CtaPrimaryRule
    /\ fnRes.secondary =
         (IF \A n \in SignalNames \ UntestedSignals : ~fnSlots[n]
            THEN CTA_LIBRARY.rappel ELSE CTA_LIBRARY.refap)

\* the filter is removed and the car cannot be driven: carter, then refap
C33_Witness ==
  /\ fnPc = "ctas"
  /\ fnSlots["fapRemoved"] /\ fnSlots["nonDrivable"]
  /\ fnRes.primary.id = "carter"
  /\ fnRes.secondary.id = "refap"

\* C34: no session ever holds a vehicle or a driving slot, and every
\* successful turn that is not a mock reports stage diag and asks for the
\* vehicle next.
C34_StageAlwaysDiag ==
  /\ \A sid \in SessionIds :
       /\ sessions[sid].slots["vehicle"] = Absent
       /\ sessions[sid].slots["driving"] = Absent
  /\ last.kind = "ok" => (last.stage = "diag" /\ last.next = "vehicle")

\* the second turn of a session that already holds symptoms and a postcode
\* still asks for the vehicle
C34_Witness ==
  /\ last.kind = "ok"
  /\ last.stage = "diag" /\ last.next = "vehicle"
  /\ Present(last.seen["symptoms"]) /\ Present(last.seen["postcode"])
  /\ Len(sessions[last.sid].history) = 4

\* C35: the score of a successful turn is 0, 30 or 60 and its route is
\* generic or partner_garage; a score of 60 comes with the severe marker and
\* with partner_garage.
C35_ChatScoresAndRoutes ==
  last.kind = "ok" =>
    /\ last.score \in {0, 30, 60}
    /\ last.route \in {"generic", "partner_garage"}
    /\ last.score = 60 =>
         (last.seen["severe"] = <<"oui">> /\ last.route = "partner_garage")

\* a turn scored 60 in a session whose user said earlier that they can remove
\* the filter: still partner_garage
C35_Witness ==
  /\ last.kind = "ok"
  /\ last.score = 60
  /\ last.route = "partner_garage"
  /\ last.seen["canRemove"] = <<"oui">>

\* C36: when a turn fails at the model call, nothing of the session is undone:
\* the session it used still exists, its message stays merged, and the
\* sessions Map, histories included, is what it was before the failure.
C36_FailedTurnKeepsMerge ==
  [][\A i \in 1..MaxInFlight :
       (reqs[i].pc = "llm" /\ reqs'[i].pc = "idle" /\ last'.kind = "error") =>
         LET sess == sessions'[reqs[i].sid]
         IN  /\ sessions' = sessions
             /\ sess.exists
             /\ \E n \in 1..Len(sess.arrived) : sess.arrived[n] = reqs[i].msg
             /\ \A k \in SlotNames :
                  (Len(sess.arrived) = 1 /\ Present(reqs[i].ext[k])) =>
                    sess.slots[k] = reqs[i].ext[k]]_vars

\* the only turn so far failed: its session exists with the slots of its
\* message and an empty history
C36_Witness ==
  /\ last.kind = "error"
  /\ \A i \in 1..MaxInFlight : reqs[i].pc = "idle"
  /\ sessions["s1"].exists
  /\ sessions["s1"].arrived = <<mPower>>
  /\ sessions["s1"].slots["severe"] = <<"oui">>
  /\ sessions["s1"].history = <<>>

\* the history h is user entry, assistant entry, user entry, ...
Alternates(h) ==
  /\ Len(h) % 2 = 0
  /\ \A n \in 1..Len(h) :
       h[n].role = (IF n % 2 = 1 THEN "user" ELSE "assistant")

HistoriesAlternate == \A sid \in SessionIds : Alternates(sessions[sid].history)

\* the texts a reply can hold once sanitized
CleanReplies ==
  {sanitizeReply(LlmText), sanitizeReply(FallbackText("diag")),
   sanitizeReply(FallbackText("offer"))}

\* the message of the turn that answers in this step for session sid
AnsweredMessages(sid) ==
  {reqs[i].msg : i \in {j \in 1..MaxInFlight :
                          /\ reqs[j].pc = "llm" /\ reqs'[j].pc = "idle"
                          /\ reqs[j].sid = sid}}
  \cup (IF nturns' # nturns /\ reqs' = reqs
          THEN {m.text : m \in GoodMessages} ELSE {})

\* C37: every history alternates user entry, assistant entry; a step leaves
\* a history as it is or appends to it the user message of the turn that
\* answers, then that turn's sanitized reply, and the turn answers 200.
C37_HistoryAlternates ==
  /\ []HistoriesAlternate
  /\ [][\A sid \in SessionIds :
          LET h == sessions[sid].history
              h2 == sessions'[sid].history
          IN  h2 # h =>
                /\ Len(h2) = Len(h) + 2
                /\ SubSeq(h2, 1, Len(h)) = h
                /\ h2[Len(h) + 1].role = "user"
                /\ h2[Len(h) + 1].content \in AnsweredMessages(sid)
                /\ h2[Len(h) + 2].role = "assistant"
                /\ h2[Len(h) + 2].content \in CleanReplies
                /\ last'.kind = "ok" /\ last'.sid = sid]_vars

\* two turns on one session were both waiting on the model and both have
\* answered: four entries, in the order of the answers
C37_Witness ==
  /\ openai
  /\ Len(sessions["s1"].history) = 4
  /\ Len(sessions["s1"].arrived) = 2
  /\ sessions["s1"].history[1].content = sessions["s1"].arrived[2]
  /\ sessions["s1"].history[3].content = sessions["s1"].arrived[1]
  /\ sessions["s1"].arrived[1] # sessions["s1"].arrived[2]

\* the events before the last are deltas and the last is done or error
OneTerminalLast(ev) ==
  /\ Len(ev) >= 1
  /\ ev[Len(ev)].type \in {"done", "error"}
  /\ \A n \in 1..(Len(ev) - 1) : ev[n].type = "delta"

\* C38: a handler that has ended wrote one terminal event, done or error, and
\* wrote it last; a handler still running has written deltas only.
C38_OneTerminalEvent ==
  /\ lastStream.pc = "ended" => OneTerminalLast(lastStream.events)
  /\ \A i \in 1..MaxStreams :
       \A n \in 1..Len(streams[i].events) : streams[i].events[n].type = "delta"

\* partial output, then an error: a delta followed by the error event
C38_Witness ==
  /\ lastStream.pc = "ended"
  /\ Len(lastStream.events) = 2
  /\ lastStream.events[1].type = "delta"
  /\ lastStream.events[2].type = "error"

\* the prompts are equal once lower-cased and stripped of white space
SameUpToWhiteSpace(q1, q2) ==
  SelectSeq(toLowerCase(q1), LAMBDA w : w \notin WhiteTokens)
    = SelectSeq(toLowerCase(q2), LAMBDA w : w \notin WhiteTokens)

\* the prompts are equal once lower-cased and stripped of runs of blanks
SameUpToBlanks(q1, q2) ==
  SelectSeq(toLowerCase(q1), LAMBDA w : w # "")
    = SelectSeq(toLowerCase(q2), LAMBDA w : w # "")

\* the handler of the request that arrives in this step, as the step leaves it
Begun ==
  IF \E i \in 1..MaxStreams : streams[i].pc = "idle" /\ streams'[i].pc = "creating"
    THEN streams'[CHOOSE i \in 1..MaxStreams :
                    streams[i].pc = "idle" /\ streams'[i].pc = "creating"]
    ELSE lastStream'

\* C39: a request whose prompt differs only in letter case or in runs of
\* white space from the prompt of a request already cached is served that
\* text without a model call, and a request is served from the cache only
\* the text of such a request.
C39_KeyIgnoresCaseAndWhiteSpace ==
  [][(nstreams' # nstreams /\ Begun.prompt # Absent) =>
       /\ \A q \in KeyPrompts :
            LET k == norm(JSONstringify(q))
            IN  (SameUpToWhiteSpace(q, Begun.prompt) /\ cache[k].has) =>
                  /\ ~Begun.llm /\ Begun.pc = "ended"
                  /\ Begun.cached = cache[k].value
       /\ Begun.cached # NoText =>
            /\ cache[Begun.key].has
            /\ Begun.cached = cache[Begun.key].value
            /\ SameUpToWhiteSpace(cache[Begun.key].by, Begun.prompt)]_vars

\* C39 amended: the same for prompts that differ only in letter case or in
\* runs of blanks; a line feed counts as a character of the prompt.
C39_KeyIgnoresCaseAndBlanks ==
  [][(nstreams' # nstreams /\ Begun.prompt # Absent) =>
       /\ \A q \in KeyPrompts :
            LET k == norm(JSONstringify(q))
            IN  (SameUpToBlanks(q, Begun.prompt) /\ cache[k].has) =>
                  /\ ~Begun.llm /\ Begun.pc = "ended"
                  /\ Begun.cached = cache[k].value
       /\ Begun.cached # NoText =>
            /\ cache[Begun.key].has
            /\ Begun.cached = cache[Begun.key].value
            /\ SameUpToBlanks(cache[Begun.key].by, Begun.prompt)]_vars

\* the text cached for "voyant FAP" was replayed to "Voyant  fap"
C39_Witness ==
  /\ lastStream.pc = "ended"
  /\ ~lastStream.llm
  /\ lastStream.prompt = <<"Voyant", "", "fap">>
  /\ cache[lastStream.key].by = <<"voyant", "FAP">>
  /\ lastStream.cached = cache[lastStream.key].value
  /\ lastStream.cached # NoText

====
